---- MODULE Spec2Model ----
(***************************************************************************)
(* A state-machine model of the session layer of the fare-search service:  *)
(*   - app/services/cookie_manager.py  (shared cookie bundle, coordinated  *)
(*     refreshes),                                                         *)
(*   - app/services/browser_manager.py (engine pairs, shared warmed pages, *)
(*     active-pair selection),                                             *)
(*   - app/services/aa_client.py       (get_itinerary: direct tier, then   *)
(*     browser fallback; the payload; the shared HTTP client),             *)
(*   - app/main.py                     (lifespan: startup and shielded     *)
(*     teardown).                                                          *)
(* asyncio tasks are cooperative: the code between two awaits that suspend *)
(* is one atomic step, which is the grain of the actions below.            *)
(***************************************************************************)
EXTENDS Integers, Sequences, FiniteSets, TLC

\* ------------------------------------------------------------------ bounds
\* Number of concurrent callers of the cookie manager.
NCallers == 3
\* Calls made to the cookie manager, over all callers.
MaxCalls == 4

CProcs == 1..NCallers

\* Number of concurrent tasks using the browser manager.
NTasks == 2
\* Page handles the environment may close under the manager (a crashed tab).
MaxCrashes == 1
\* get_itinerary calls made, one after another.
MaxFetches == 2
\* shutdown_browser is called only while fewer page handles than this were created.
MaxPages == 5
\* Pages left open by failed warm-ups that are followed.
MaxUnclosed == 1
\* register_successful_request calls in one run: two full rotation periods.
MaxRegistered == 151

\* ---------------------------------------------------------------- state
\* cookie_manager.py
VARIABLES
    cookies,         \* _cookies: the cached bundle, NoBundle when None
    refreshing,      \* _refreshing
    refreshStarted,  \* number of _refresh_cookies_internal() calls begun
    refreshFinished, \* number of them that returned a bundle
    refreshFailed,   \* number of them that raised
    cpc,             \* per caller: position in get_cookies / refresh_cookies
    cop,             \* per caller: "get" or "refresh"
    cnotified,       \* per caller: woken by notify_all() since it began to wait
    cref,            \* per caller: the underlying refresh it is performing
    cres,            \* per caller: what the last call returned (a bundle) or Raised
    ncalls,          \* calls made so far, over all callers
    inCycle,         \* per caller: the call began before any underlying refresh ended
    cfailed,         \* per caller: a refresh failed while this call was waiting on it
    cstart,          \* per caller: underlying refreshes begun before its call in progress
    lastForced       \* the latest bundle a refresh_cookies call returned, if any

cookieStateVars == <<cookies, refreshing, refreshStarted, refreshFinished, refreshFailed>>
cookieCallerVars == <<cpc, cop, cnotified, cref, cres, ncalls, inCycle, cfailed,
                      cstart, lastForced>>
cookieVars == <<cookieStateVars, cookieCallerVars>>

\* browser_manager.py
VARIABLES
    pairs,          \* _browser_pairs: engine -> BrowserPairState
    activePair,     \* _active_pair
    requestCounter, \* _request_counter
    startupLock,    \* _startup_lock: Free or the task holding it
    closedPages,    \* the page handles for which is_closed() is true
    nextPage,       \* the next fresh page handle
    crashes,        \* pages closed by the environment so far
    bpc,            \* per task: position in the operation it runs
    bop,            \* per task: the operation it runs, "none" between operations
    bstype,         \* per task: the search_type argument
    btarget,        \* per task: _rotate_active_pair's local `target`
    held,           \* per task: the page handle it was given and still uses
    bres,           \* per task: how its last operation ended
    bstart          \* per task: startup_browser's loop so far (`successes`, pairs tried)

browserVars == <<pairs, activePair, requestCounter, startupLock, closedPages, nextPage,
                 crashes, bpc, bop, bstype, btarget, held, bres, bstart>>

\* aa_client.py
VARIABLES
    fetch,          \* the get_itinerary call in progress: its locals and its record
    nfetch          \* get_itinerary calls begun so far

fetchVars == <<fetch, nfetch>>

\* aa_client.py: the shared HTTP client
VARIABLES
    client,         \* _client: NoClient or the AsyncClient instance
    clientLock,     \* _client_lock: Free or the task holding it
    aclosed,        \* per AsyncClient instance: how many times aclose() was called on it
    nclients,       \* AsyncClient instances constructed so far
    hpc,            \* per task: position in _get_http_client / shutdown_http_client
    hlast           \* per task: how its last call ended

httpVars == <<client, clientLock, aclosed, nclients, hpc, hlast>>

VARIABLES
    payload,        \* the last _build_payload call: its arguments and the dict it returned
    life,           \* main.py: where the lifespan context manager is
    work            \* the _initialize_pair / _teardown_pair in progress, step by step

\* browser_manager.py: what its operations have done so far
VARIABLES
    unclosed,       \* pages a failed _create_warmed_page opened and did not close
    registered,     \* register_successful_request calls that have counted
    rotations       \* _rotate_active_pair calls that have ended

tallyVars == <<unclosed, registered, rotations>>

auxVars == <<httpVars, payload, life, work, tallyVars>>

vars == <<cookieVars, browserVars, fetchVars, auxVars>>

\* ====================================================================
\* cookie_manager.py
\* ====================================================================
\* _cookies = None. A bundle is identified by the ordinal (1, 2, ...) of the
\* underlying refresh that produced it.
NoBundle == 0
\* The call raised instead of returning a bundle.
Raised == -1

\* What browser_manager.refresh_browser_session() can do: return a bundle or raise.
RefreshOutcomes == {"ok", "raise"}

CookieInit ==
    /\ cookies = NoBundle
    /\ refreshing = FALSE
    /\ refreshStarted = 0
    /\ refreshFinished = 0
    /\ refreshFailed = 0
    /\ cpc = [p \in CProcs |-> "idle"]
    /\ cop = [p \in CProcs |-> "get"]
    /\ cnotified = [p \in CProcs |-> FALSE]
    /\ cref = [p \in CProcs |-> 0]
    /\ cres = [p \in CProcs |-> NoBundle]
    /\ ncalls = 0
    /\ inCycle = [p \in CProcs |-> FALSE]
    /\ cfailed = [p \in CProcs |-> FALSE]
    /\ cstart = [p \in CProcs |-> 0]
    /\ lastForced = NoBundle

\* Bookkeeping common to the first step of a call by p.
BeginCall(p, op) ==
    /\ cpc[p] \in {"idle", "done"}
    /\ ncalls < MaxCalls
    /\ cop' = [cop EXCEPT ![p] = op]
    /\ ncalls' = ncalls + 1
    /\ inCycle' = [inCycle EXCEPT ![p] = (refreshFinished + refreshFailed = 0)]
    /\ cfailed' = [cfailed EXCEPT ![p] = FALSE]
    /\ cstart' = [cstart EXCEPT ![p] = refreshStarted]
    /\ UNCHANGED lastForced

\* "Take responsibility for performing the refresh": _refreshing = True, leave the
\* condition block and start _refresh_cookies_internal().
TakeRefresh(p, busy) ==
    /\ refreshing' = TRUE
    /\ refreshStarted' = refreshStarted + 1
    /\ cref' = [cref EXCEPT ![p] = refreshStarted + 1]
    /\ cpc' = [cpc EXCEPT ![p] = busy]

\* Lines 31 and 61: `while _refreshing`.
MustWaitNever == FALSE
MustWait == refreshing

\* Lines 28 and 33: `_cookies is not None and not _refreshing`.
CacheUsableNever == FALSE
CacheUsable == cookies # NoBundle /\ ~refreshing

\* get_cookies(), lines 27-37: up to the first suspension.
GetCookiesEnter(p) ==
    /\ UNCHANGED <<browserVars, fetchVars, auxVars>>
    /\ BeginCall(p, "get")
    /\ cnotified' = [cnotified EXCEPT ![p] = FALSE]
    /\ IF CacheUsable
         THEN /\ cpc' = [cpc EXCEPT ![p] = "done"]
              /\ cres' = [cres EXCEPT ![p] = cookies]
              /\ UNCHANGED <<refreshing, refreshStarted, cref>>
         ELSE IF MustWait
           THEN /\ cpc' = [cpc EXCEPT ![p] = "g_wait"]
                /\ UNCHANGED <<refreshing, refreshStarted, cref, cres>>
           ELSE /\ TakeRefresh(p, "g_refresh")
                /\ UNCHANGED cres
    /\ UNCHANGED <<cookies, refreshFinished, refreshFailed>>

\* get_cookies(), lines 31-37: a waiter resumes from _condition.wait().
GetCookiesWake(p) ==
    /\ UNCHANGED <<browserVars, fetchVars, auxVars>>
    /\ cpc[p] = "g_wait"
    /\ cnotified[p]
    /\ cnotified' = [cnotified EXCEPT ![p] = FALSE]
    /\ IF CacheUsable
         THEN /\ cpc' = [cpc EXCEPT ![p] = "done"]
              /\ cres' = [cres EXCEPT ![p] = cookies]
              /\ UNCHANGED <<refreshing, refreshStarted, cref>>
         ELSE IF MustWait
           THEN UNCHANGED <<cpc, refreshing, refreshStarted, cref, cres>>
           ELSE /\ TakeRefresh(p, "g_refresh")
                /\ UNCHANGED cres
    /\ UNCHANGED <<cookies, refreshFinished, refreshFailed, cop, ncalls, inCycle, cfailed,
                   cstart, lastForced>>

\* refresh_cookies(), lines 59-63: up to the first suspension.
RefreshCookiesEnter(p) ==
    /\ UNCHANGED <<browserVars, fetchVars, auxVars>>
    /\ BeginCall(p, "refresh")
    /\ cnotified' = [cnotified EXCEPT ![p] = FALSE]
    /\ cookies' = NoBundle
    /\ IF MustWait
         THEN /\ cpc' = [cpc EXCEPT ![p] = "r_wait"]
              /\ UNCHANGED <<refreshing, refreshStarted, cref>>
         ELSE TakeRefresh(p, "r_refresh")
    /\ UNCHANGED <<refreshFinished, refreshFailed, cres>>

\* refresh_cookies(), lines 61-63: a waiter resumes from _condition.wait().
RefreshCookiesWakeReturnsCached(p) ==
    /\ UNCHANGED <<browserVars, fetchVars, auxVars>>
    /\ cpc[p] = "r_wait"
    /\ cnotified[p]
    /\ cnotified' = [cnotified EXCEPT ![p] = FALSE]
    /\ IF CacheUsable
         THEN /\ cpc' = [cpc EXCEPT ![p] = "done"]
              /\ cres' = [cres EXCEPT ![p] = cookies]
              /\ UNCHANGED <<refreshing, refreshStarted, cref>>
         ELSE IF MustWait
           THEN UNCHANGED <<cpc, refreshing, refreshStarted, cref, cres>>
           ELSE /\ TakeRefresh(p, "r_refresh")
                /\ UNCHANGED cres
    /\ UNCHANGED <<cookies, refreshFinished, refreshFailed, cop, ncalls, inCycle, cfailed,
                   cstart, lastForced>>
RefreshCookiesWake(p) ==
    /\ UNCHANGED <<browserVars, fetchVars, auxVars>>
    /\ cpc[p] = "r_wait"
    /\ cnotified[p]
    /\ cnotified' = [cnotified EXCEPT ![p] = FALSE]
    /\ IF MustWait
         THEN UNCHANGED <<cpc, refreshing, refreshStarted, cref>>
         ELSE TakeRefresh(p, "r_refresh")
    /\ UNCHANGED <<cookies, refreshFinished, refreshFailed, cres, cop, ncalls, inCycle, cfailed,
                   cstart, lastForced>>

\* The callers suspended in _condition.wait().
Waiting(q) == cpc[q] \in {"g_wait", "r_wait"}

\* _condition.notify_all(): every caller suspended in wait() is woken.
NotifyAllOmitted == cnotified
NotifyAll == [q \in CProcs |-> IF cpc[q] \in {"g_wait", "r_wait"} THEN TRUE ELSE cnotified[q]]

\* Lines 39-51 and 65-77: the underlying refresh of p ends, by returning a bundle
\* or by raising.
RefreshComplete(p, outcome) ==
    /\ UNCHANGED <<browserVars, fetchVars, auxVars>>
    /\ cpc[p] \in {"g_refresh", "r_refresh"}
    /\ refreshing' = FALSE
    /\ cnotified' = NotifyAll
    /\ cpc' = [cpc EXCEPT ![p] = "done"]
    /\ cref' = [cref EXCEPT ![p] = 0]
    /\ IF outcome = "ok"
         THEN /\ cookies' = cref[p]
              /\ cres' = [cres EXCEPT ![p] = cref[p]]
              /\ refreshFinished' = refreshFinished + 1
              /\ UNCHANGED refreshFailed
              /\ lastForced' = IF cop[p] = "refresh" THEN cref[p] ELSE lastForced
              /\ UNCHANGED cfailed
         ELSE /\ cres' = [cres EXCEPT ![p] = Raised]
              /\ refreshFailed' = refreshFailed + 1
              /\ cfailed' = [q \in CProcs |-> Waiting(q) \/ cfailed[q]]
              /\ UNCHANGED <<cookies, refreshFinished, lastForced>>
    /\ UNCHANGED <<refreshStarted, cop, ncalls, inCycle, cstart>>

CookieNext ==
    \/ \E p \in CProcs : GetCookiesEnter(p)
    \/ \E p \in CProcs : GetCookiesWake(p)
    \/ \E p \in CProcs : RefreshCookiesEnter(p)
    \/ \E p \in CProcs : RefreshCookiesWake(p)
    \/ \E p \in CProcs, o \in RefreshOutcomes : RefreshComplete(p, o)

\* ====================================================================
\* browser_manager.py
\* ====================================================================
BProcs == 1..NTasks
Engines == {"webkit", "firefox"}
SearchTypes == {"Award", "Revenue"}

\* _ROTATION_THRESHOLD
RotationThreshold == 75

\* A page attribute holding None.
NoPage == 0
\* A lock nobody holds.
Free == 0

\* BrowserPairState() as constructed: no resources, not healthy.
BlankPair ==
    [manager |-> FALSE, playwright |-> FALSE,
     award_browser |-> FALSE, cash_browser |-> FALSE,
     award_context |-> FALSE, cash_context |-> FALSE,
     award_page |-> NoPage, cash_page |-> NoPage,
     healthy |-> FALSE]

AlternateSame(k) == k
Alternate(k) == IF k = "webkit" THEN "firefox" ELSE "webkit"

\* page_attr = "award_page" if search_type == "Award" else "cash_page"
PageAttrAlwaysAward(st) == "award_page"
PageAttr(st) == IF st = "Award" THEN "award_page" ELSE "cash_page"

\* The context _create_warmed_page picks for the search type.
ContextOf(state, st) == IF st = "Award" THEN state.award_context ELSE state.cash_context

PageOf(state, st) == state[PageAttr(st)]

IsOpenUnchecked(pg) == pg # NoPage
IsOpen(pg) == pg # NoPage /\ pg \notin closedPages

\* The pages a pair state refers to.
PagesOf(state) == {state.award_page, state.cash_page} \ {NoPage}

\* _teardown_pair: every resource released, healthy False.
TeardownPair(state) == BlankPair

\* _initialize_pair once its teardown is done and every launch, context and warm-up
\* succeeded: the two pages are fresh handles.
InitializedPair(pgAward, pgCash) ==
    [manager |-> TRUE, playwright |-> TRUE,
     award_browser |-> TRUE, cash_browser |-> TRUE,
     award_context |-> TRUE, cash_context |-> TRUE,
     award_page |-> pgAward, cash_page |-> pgCash,
     healthy |-> TRUE]

\* _initialize_pair(pair_key) on the pairs ps, np the next fresh page handle: a
\* no-op on a healthy pair; otherwise tear down, then either bring everything up
\* (ok) or tear down again and raise.
PairsAfterInitialize(ps, k, ok, np) ==
    IF ps[k].healthy THEN ps
    ELSE IF ok THEN [ps EXCEPT ![k] = InitializedPair(np, np + 1)]
    ELSE [ps EXCEPT ![k] = TeardownPair(ps[k])]

\* The pages _initialize_pair closes (in its first teardown) and the fresh handles
\* it uses up.
ClosedByInitialize(ps, k) == IF ps[k].healthy THEN {} ELSE PagesOf(ps[k])
UsedByInitialize(ps, k, ok) == IF ~ps[k].healthy /\ ok THEN 2 ELSE 0

InitializePair(k, ok) ==
    /\ pairs' = PairsAfterInitialize(pairs, k, ok, nextPage)
    /\ closedPages' = closedPages \cup ClosedByInitialize(pairs, k)
    /\ nextPage' = nextPage + UsedByInitialize(pairs, k, ok)

\* startup_browser's locals before its loop: `successes = []`, no pair tried yet.
NoStartup == [successes |-> <<>>, attempts |-> <<>>]

BrowserInit ==
    /\ pairs = [k \in Engines |-> BlankPair]
    /\ activePair = "webkit"
    /\ requestCounter = 0
    /\ startupLock = Free
    /\ closedPages = {}
    /\ nextPage = 1
    /\ crashes = 0
    /\ bpc = [p \in BProcs |-> "idle"]
    /\ bop = [p \in BProcs |-> "none"]
    /\ bstype = [p \in BProcs |-> "none"]
    /\ btarget = [p \in BProcs |-> "none"]
    /\ held = [p \in BProcs |-> NoPage]
    /\ bres = [p \in BProcs |-> "none"]
    /\ bstart = [p \in BProcs |-> NoStartup]
    /\ unclosed = 0
    /\ registered = 0
    /\ rotations = 0

\* An operation of task p ends: its arguments and locals are gone.
Forget(p) ==
    /\ bop' = [bop EXCEPT ![p] = "none"]
    /\ bstype' = [bstype EXCEPT ![p] = "none"]
    /\ btarget' = [btarget EXCEPT ![p] = "none"]

\* A task calls acquire_page(search_type) or get_bootstrap_page(search_type): both
\* begin with `await ensure_browser_started()`.
CallPageOp(p, op, st) ==
    /\ UNCHANGED <<cookieVars, fetchVars, auxVars, bstart>>
    /\ bpc[p] = "idle"
    /\ bpc' = [bpc EXCEPT ![p] = "ebs"]
    /\ bop' = [bop EXCEPT ![p] = op]
    /\ bstype' = [bstype EXCEPT ![p] = st]
    /\ bres' = [bres EXCEPT ![p] = "none"]
    /\ UNCHANGED <<pairs, activePair, requestCounter, startupLock, closedPages, nextPage,
                   crashes, btarget, held>>

\* ensure_browser_started, lines 227-230: take the lock; return if the active pair
\* is healthy, otherwise go on to reinitialize it with the lock held.
EnsureEnter(p) ==
    /\ UNCHANGED <<cookieVars, fetchVars, auxVars, bstart>>
    /\ bpc[p] = "ebs"
    /\ startupLock = Free
    /\ IF pairs[activePair].healthy
         THEN /\ bpc' = [bpc EXCEPT ![p] = "op_lock"]
              /\ UNCHANGED startupLock
         ELSE /\ bpc' = [bpc EXCEPT ![p] = "ebs_init_active"]
              /\ startupLock' = p
    /\ UNCHANGED <<pairs, activePair, requestCounter, closedPages, nextPage, crashes,
                   bop, bstype, btarget, held, bres>>

\* ensure_browser_started, lines 232-239: reinitialize the active pair.
EnsureInitActive(p, ok) ==
    /\ UNCHANGED <<cookieVars, fetchVars, auxVars, bstart>>
    /\ bpc[p] = "ebs_init_active"
    /\ InitializePair(activePair, ok)
    /\ IF pairs'[activePair].healthy
         THEN /\ bpc' = [bpc EXCEPT ![p] = "op_lock"]
              /\ startupLock' = Free
         ELSE /\ bpc' = [bpc EXCEPT ![p] = "ebs_init_alt"]
              /\ UNCHANGED startupLock
    /\ UNCHANGED <<activePair, requestCounter, crashes, bop, bstype, btarget, held, bres>>

\* Line 248: `if not _get_pair_state(alternate).healthy: raise`.
AlternateUsableAlways(ps, k) == TRUE
AlternateUsable(ps, k) == ps[k].healthy

\* ensure_browser_started, lines 241-251: fall back to the alternate pair.
EnsureInitAlternate(p, ok) ==
    /\ UNCHANGED <<cookieVars, fetchVars, auxVars, bstart>>
    /\ bpc[p] = "ebs_init_alt"
    /\ InitializePair(Alternate(activePair), ok)
    /\ startupLock' = Free
    /\ IF AlternateUsable(pairs', Alternate(activePair))
         THEN /\ activePair' = Alternate(activePair)
              /\ bpc' = [bpc EXCEPT ![p] = "op_lock"]
              /\ UNCHANGED <<bres, bop, bstype, btarget>>
         ELSE /\ bpc' = [bpc EXCEPT ![p] = "idle"]
              /\ bres' = [bres EXCEPT ![p] = "no_pair"]
              /\ Forget(p)
              /\ UNCHANGED activePair
    /\ UNCHANGED <<requestCounter, crashes, held>>

\* acquire_page lines 329-341 / get_bootstrap_page lines 301-310: take the lock and
\* read the active pair's page for the search type. An open page is handed out as
\* it is; otherwise a page is created with the lock held.
PageOpLock(p) ==
    /\ UNCHANGED <<cookieVars, fetchVars, auxVars, bstart>>
    /\ bpc[p] = "op_lock"
    /\ startupLock = Free
    /\ LET page == PageOf(pairs[activePair], bstype[p]) IN
         IF IsOpen(page)
           THEN /\ held' = [held EXCEPT ![p] = page]
                /\ bpc' = [bpc EXCEPT ![p] = "holding"]
                /\ bres' = [bres EXCEPT ![p] = "page"]
                /\ UNCHANGED startupLock
           ELSE /\ bpc' = [bpc EXCEPT ![p] = "op_create"]
                /\ startupLock' = p
                /\ UNCHANGED <<held, bres>>
    /\ UNCHANGED <<pairs, activePair, requestCounter, closedPages, nextPage, crashes,
                   bop, bstype, btarget>>

\* How the awaits of _create_warmed_page (lines 116-119) can go: everything works;
\* context.new_page() raises; page.goto raises Playwright's TimeoutError or another
\* error; page.wait_for_selector raises TimeoutError or another error.
WarmRuns == {"ok", "new_page_error", "goto_timeout", "goto_error",
             "selector_timeout", "selector_error"}

\* What _create_warmed_page does with a run: lines 117-125, one `except
\* TimeoutError` around both page.goto and page.wait_for_selector turns a
\* TimeoutError of either into BrowserFingerprintBannedException ("ban"); any other
\* exception propagates ("error").
WarmResult(run) ==
    CASE run = "ok" -> "ok"
      [] run \in {"goto_timeout", "selector_timeout"} -> "ban"
      [] OTHER -> "error"

\* Does _create_warmed_page open a page in the run (line 116 returned)?
OpensPage(run) == run # "new_page_error"

\* Lines 117-127: the page of a failed run is closed in the `except TimeoutError`
\* block only (line 121); an exception of any other type leaves the function
\* with the page open and referred to by nothing.
LeftOpen(run) == OpensPage(run) /\ WarmResult(run) = "error"

\* _create_warmed_page + setattr(state, page_attr, page), with the lock held.
PageOpCreate(p, run) ==
    /\ UNCHANGED <<cookieVars, fetchVars, httpVars, payload, life, work, registered,
                   rotations, bstart>>
    /\ bpc[p] = "op_create"
    /\ startupLock' = Free
    /\ IF ContextOf(pairs[activePair], bstype[p]) /\ LeftOpen(run)
         THEN unclosed < MaxUnclosed /\ unclosed' = unclosed + 1
         ELSE UNCHANGED unclosed
    /\ IF ContextOf(pairs[activePair], bstype[p]) /\ WarmResult(run) = "ok"
         THEN /\ pairs' = [pairs EXCEPT ![activePair][PageAttr(bstype[p])] = nextPage]
              /\ nextPage' = nextPage + 1
              /\ held' = [held EXCEPT ![p] = nextPage]
              /\ bpc' = [bpc EXCEPT ![p] = "holding"]
              /\ bres' = [bres EXCEPT ![p] = "page"]
              /\ UNCHANGED <<bop, bstype, btarget>>
         ELSE /\ bpc' = [bpc EXCEPT ![p] = "idle"]
              /\ bres' = [bres EXCEPT ![p] =
                    IF ~ContextOf(pairs[activePair], bstype[p]) THEN "no_context"
                    ELSE WarmResult(run)]
              /\ Forget(p)
              /\ UNCHANGED <<pairs, nextPage, held>>
    /\ UNCHANGED <<activePair, requestCounter, closedPages, crashes>>

\* The caller leaves the acquire_page block, or is done with the bootstrap page.
\* Nothing is given back: the page stays the pair's shared page.
PageOpDone(p) ==
    /\ UNCHANGED <<cookieVars, fetchVars, auxVars, bstart>>
    /\ bpc[p] = "holding"
    /\ bpc' = [bpc EXCEPT ![p] = "idle"]
    /\ held' = [held EXCEPT ![p] = NoPage]
    /\ Forget(p)
    /\ UNCHANGED <<pairs, activePair, requestCounter, startupLock, closedPages, nextPage,
                   crashes, bres>>

\* The environment closes a page under the manager (the tab or its browser died).
PageCrash(pg) ==
    /\ UNCHANGED <<cookieVars, fetchVars, auxVars, bstart>>
    /\ crashes < MaxCrashes
    /\ \E k \in Engines : pg \in PagesOf(pairs[k])
    /\ pg \notin closedPages
    /\ closedPages' = closedPages \cup {pg}
    /\ crashes' = crashes + 1
    /\ UNCHANGED <<pairs, activePair, requestCounter, startupLock, nextPage,
                   bpc, bop, bstype, btarget, held, bres>>

\* Line 288: `if _request_counter >= _ROTATION_THRESHOLD`.
ReachesThresholdLate(counter) == counter > RotationThreshold
ReachesThreshold(counter) == counter >= RotationThreshold

\* register_successful_request -> _record_successful_request, lines 284-293: count
\* under the counter lock (no suspension inside), then rotate when the threshold
\* is reached; _rotate_active_pair reads `target` before it takes the lock.
RecordSuccessfulRequest(p) ==
    /\ UNCHANGED <<cookieVars, fetchVars, httpVars, payload, life, work, unclosed,
                   rotations, bstart>>
    /\ bpc[p] = "idle"
    /\ registered < MaxRegistered
    /\ registered' = registered + 1
    /\ IF ReachesThreshold(requestCounter + 1)
         THEN /\ requestCounter' = 0
              /\ bop' = [bop EXCEPT ![p] = "register"]
              /\ btarget' = [btarget EXCEPT ![p] = Alternate(activePair)]
              /\ bpc' = [bpc EXCEPT ![p] = "rot_lock"]
              /\ bres' = [bres EXCEPT ![p] = "none"]
         ELSE /\ requestCounter' = requestCounter + 1
              /\ bres' = [bres EXCEPT ![p] = "none"]
              /\ UNCHANGED <<bop, btarget, bpc>>
    /\ UNCHANGED <<pairs, activePair, startupLock, closedPages, nextPage, crashes,
                   bstype, held>>

\* _rotate_active_pair, lines 265-278: with the lock, switch to a healthy target
\* at once, or initialize it first.
RotateLock(p) ==
    /\ UNCHANGED <<cookieVars, fetchVars, httpVars, payload, life, work, unclosed,
                   registered, bstart>>
    /\ bpc[p] = "rot_lock"
    /\ startupLock = Free
    /\ rotations' = IF pairs[btarget[p]].healthy THEN rotations + 1 ELSE rotations
    /\ IF pairs[btarget[p]].healthy
         THEN /\ activePair' = btarget[p]
              /\ bpc' = [bpc EXCEPT ![p] = "idle"]
              /\ bres' = [bres EXCEPT ![p] = "rotated"]
              /\ Forget(p)
              /\ UNCHANGED startupLock
         ELSE /\ bpc' = [bpc EXCEPT ![p] = "rot_init"]
              /\ startupLock' = p
              /\ UNCHANGED <<activePair, bres, bop, bstype, btarget>>
    /\ UNCHANGED <<pairs, requestCounter, closedPages, nextPage, crashes, held>>

RotateInit(p, ok) ==
    /\ UNCHANGED <<cookieVars, fetchVars, httpVars, payload, life, work, unclosed,
                   registered, bstart>>
    /\ bpc[p] = "rot_init"
    /\ rotations' = rotations + 1
    /\ InitializePair(btarget[p], ok)
    /\ startupLock' = Free
    /\ bpc' = [bpc EXCEPT ![p] = "idle"]
    /\ IF ok
         THEN /\ activePair' = btarget[p]
              /\ bres' = [bres EXCEPT ![p] = "rotated"]
         ELSE /\ bres' = [bres EXCEPT ![p] = "rotation_skipped"]
              /\ UNCHANGED activePair
    /\ Forget(p)
    /\ UNCHANGED <<requestCounter, crashes, held>>

\* startup_browser, line 182: take the lock; `successes = []`.
StartupEnter(p) ==
    /\ UNCHANGED <<cookieVars, fetchVars, auxVars>>
    /\ bpc[p] = "idle"
    /\ startupLock = Free
    /\ startupLock' = p
    /\ bpc' = [bpc EXCEPT ![p] = "st_webkit"]
    /\ bop' = [bop EXCEPT ![p] = "startup"]
    /\ bres' = [bres EXCEPT ![p] = "none"]
    /\ bstart' = [bstart EXCEPT ![p] = NoStartup]
    /\ UNCHANGED <<pairs, activePair, requestCounter, closedPages, nextPage, crashes,
                   bstype, btarget, held>>

\* Lines 185-190, one iteration of the loop: initialize pair k (a no-op on a healthy
\* pair); an exception is swallowed; a healthy pair is appended to `successes`.
StartupAfterPair(st, ps, k) ==
    [successes |-> IF ps[k].healthy THEN Append(st.successes, k) ELSE st.successes,
     attempts |-> Append(st.attempts, k)]

\* Line 192: `if not successes: raise`.
StartupRaisesUnlessAll(successes) == Len(successes) < 2
StartupRaises(successes) == successes = <<>>

\* Lines 196-199: WebKit if healthy, otherwise the first successful pair.
StartupChoiceKeep(ps, successes) == activePair
StartupChoice(ps, successes) == IF ps["webkit"].healthy THEN "webkit" ELSE successes[1]

\* startup_browser, first iteration: the WebKit pair.
StartupWebkit(p, ok) ==
    /\ UNCHANGED <<cookieVars, fetchVars, auxVars>>
    /\ bpc[p] = "st_webkit"
    /\ InitializePair("webkit", ok)
    /\ bstart' = [bstart EXCEPT ![p] = StartupAfterPair(@, pairs', "webkit")]
    /\ bpc' = [bpc EXCEPT ![p] = "st_firefox"]
    /\ UNCHANGED <<activePair, requestCounter, startupLock, crashes, bop, bstype,
                   btarget, held, bres>>

\* startup_browser, second iteration (the Firefox pair) and lines 192-210: raise
\* when nothing is healthy, otherwise select the active pair and reset the counter.
StartupFirefox(p, ok) ==
    /\ UNCHANGED <<cookieVars, fetchVars, auxVars>>
    /\ bpc[p] = "st_firefox"
    /\ InitializePair("firefox", ok)
    /\ LET done == StartupAfterPair(bstart[p], pairs', "firefox") IN
         IF StartupRaises(done.successes)
           THEN /\ bres' = [bres EXCEPT ![p] = "startup_failed"]
                /\ UNCHANGED <<activePair, requestCounter>>
           ELSE /\ bres' = [bres EXCEPT ![p] = "started"]
                /\ activePair' = StartupChoice(pairs', done.successes)
                /\ requestCounter' = 0
    /\ startupLock' = Free
    /\ bpc' = [bpc EXCEPT ![p] = "idle"]
    /\ bstart' = [bstart EXCEPT ![p] = NoStartup]
    /\ Forget(p)
    /\ UNCHANGED <<crashes, held>>

\* shutdown_browser, line 216: take the lock.
ShutdownTakeLock(p) ==
    /\ UNCHANGED <<cookieVars, fetchVars, auxVars, bstart>>
    /\ bpc[p] = "idle"
    /\ startupLock = Free
    /\ startupLock' = p
    /\ bpc' = [bpc EXCEPT ![p] = "sd_webkit"]
    /\ bop' = [bop EXCEPT ![p] = "shutdown"]
    /\ UNCHANGED <<pairs, activePair, requestCounter, closedPages, nextPage, crashes,
                   bstype, btarget, held, bres>>

\* A task calls shutdown_browser (as often as the page-handle bound allows).
ShutdownEnter(p) ==
    /\ nextPage <= MaxPages
    /\ ShutdownTakeLock(p)

\* Line 219: `if state.manager or state.healthy`.
NeedsTeardownNever(state) == FALSE
NeedsTeardown(state) == state.manager \/ state.healthy

\* shutdown_browser, lines 217-221: one iteration of the loop, tearing the pair down
\* when it has a manager or is healthy; after the second the lock is released.
ShutdownPair(p) ==
    /\ UNCHANGED <<cookieVars, fetchVars, auxVars, bstart>>
    /\ bpc[p] \in {"sd_webkit", "sd_firefox"}
    /\ LET k == IF bpc[p] = "sd_webkit" THEN "webkit" ELSE "firefox" IN
         IF NeedsTeardown(pairs[k])
           THEN /\ pairs' = [pairs EXCEPT ![k] = TeardownPair(pairs[k])]
                /\ closedPages' = closedPages \cup PagesOf(pairs[k])
           ELSE UNCHANGED <<pairs, closedPages>>
    /\ IF bpc[p] = "sd_webkit"
         THEN /\ bpc' = [bpc EXCEPT ![p] = "sd_firefox"]
              /\ UNCHANGED <<startupLock, bres, bop, bstype, btarget>>
         ELSE /\ bpc' = [bpc EXCEPT ![p] = "idle"]
              /\ startupLock' = Free
              /\ bres' = [bres EXCEPT ![p] = "shutdown"]
              /\ Forget(p)
    /\ UNCHANGED <<activePair, requestCounter, nextPage, crashes, held>>

PageNext ==
    \/ \E p \in BProcs, st \in SearchTypes : CallPageOp(p, "acquire", st)
    \/ \E p \in BProcs, st \in SearchTypes : CallPageOp(p, "bootstrap", st)
    \/ \E p \in BProcs : EnsureEnter(p)
    \/ \E p \in BProcs, ok \in BOOLEAN : EnsureInitActive(p, ok)
    \/ \E p \in BProcs, ok \in BOOLEAN : EnsureInitAlternate(p, ok)
    \/ \E p \in BProcs : PageOpLock(p)
    \/ \E p \in BProcs, run \in WarmRuns : PageOpCreate(p, run)
    \/ \E p \in BProcs : PageOpDone(p)
    \/ \E pg \in 1..(nextPage - 1) : PageCrash(pg)

RotationNext ==
    \/ \E p \in BProcs : RecordSuccessfulRequest(p)
    \/ \E p \in BProcs : RotateLock(p)
    \/ \E p \in BProcs, ok \in BOOLEAN : RotateInit(p, ok)

StartupNext ==
    \/ \E p \in BProcs : StartupEnter(p)
    \/ \E p \in BProcs, ok \in BOOLEAN : StartupWebkit(p, ok)
    \/ \E p \in BProcs, ok \in BOOLEAN : StartupFirefox(p, ok)

ShutdownNext ==
    \/ \E p \in BProcs : ShutdownEnter(p)
    \/ \E p \in BProcs : ShutdownPair(p)

LifecycleNext == StartupNext \/ ShutdownNext

\* ====================================================================
\* aa_client.py
\* ====================================================================
\* _REFRESH_STATUS_CODES
RefreshStatusCodes == {401, 403, 419, 429}

\* `for _ in range(2)` of get_itinerary and `for _ in range(3)` of
\* _perform_playwright_fetch.
DirectAttempts == 2
FallbackAttempts == 3

\* What the upstream can answer: a status below 400 with a JSON body, an empty
\* body or a body that is not JSON, or an error status (whose body, an error
\* text, decides nothing).
ErrorStatuses == {401, 403, 419, 429, 460, 503, 404, 500}
Bodies == {"json", "empty", "garbage"}
Responses ==
    {[kind |-> "response", status |-> 200, body |-> b] : b \in Bodies}
    \cup {[kind |-> "response", status |-> s, body |-> "garbage"] : s \in ErrorStatuses}

\* What `await _perform_request(...)` can do: return a response or raise.
DirectResults == Responses \cup {[kind |-> "exception", status |-> 0, body |-> "empty"]}

\* What one iteration's try block of _perform_playwright_fetch can do: raise
\* TargetClosedError, raise another error, or leave `result`: not a dict, a dict
\* with "error", or a dict with the response's status and body.
FallbackResults ==
    {[kind |-> k, status |-> 0, body |-> "empty"] :
        k \in {"target_closed", "exception", "not_dict", "js_error"}}
    \cup Responses

\* get_itinerary, lines 275-307: what the loop body does with a response.
DirectVerdictNoRetry(r) ==
    IF r.kind = "exception" THEN "raise_request"
    ELSE IF r.status >= 400 THEN "raise_http"
    ELSE IF r.body = "empty" THEN "raise_empty"
    ELSE IF r.body = "garbage" THEN "raise_parse"
    ELSE "return"
DirectVerdictRetryAll(r) ==
    IF r.kind = "exception" THEN "raise_request"
    ELSE IF r.status >= 400 THEN "refresh"
    ELSE IF r.body = "empty" THEN "raise_empty"
    ELSE IF r.body = "garbage" THEN "raise_parse"
    ELSE "return"
DirectVerdictBadBodyRetried(r) ==
    IF r.kind = "exception" THEN "raise_request"
    ELSE IF r.status \in RefreshStatusCodes THEN "refresh"
    ELSE IF r.status >= 400 THEN "raise_http"
    ELSE IF r.body \in {"empty", "garbage"} THEN "refresh"
    ELSE "return"
DirectVerdict(r) ==
    IF r.kind = "exception" THEN "raise_request"
    ELSE IF r.status \in RefreshStatusCodes THEN "refresh"
    ELSE IF r.status >= 400 THEN "raise_http"
    ELSE IF r.body = "empty" THEN "raise_empty"
    ELSE IF r.body = "garbage" THEN "raise_parse"
    ELSE "return"

\* _perform_playwright_fetch, lines 165-200: what an iteration does with the
\* outcome of its try block.
FallbackVerdictRetrying(r) ==
    IF r.kind = "target_closed" THEN "refresh"
    ELSE IF r.kind = "exception" THEN "fb_exception"
    ELSE IF r.kind = "not_dict" THEN "fb_payload"
    ELSE IF r.kind = "js_error" THEN "fb_js"
    ELSE IF r.status \in RefreshStatusCodes THEN "refresh"
    ELSE IF r.status >= 400 THEN "fb_http"
    ELSE IF r.body = "empty" THEN "fb_empty"
    ELSE IF r.body = "garbage" THEN "fb_parse"
    ELSE "return"
FallbackVerdict(r) ==
    IF r.kind = "target_closed" THEN "refresh"
    ELSE IF r.kind = "exception" THEN "fb_exception"
    ELSE IF r.kind = "not_dict" THEN "fb_payload"
    ELSE IF r.kind = "js_error" THEN "fb_js"
    ELSE IF r.status >= 400 THEN "fb_http"
    ELSE IF r.body = "empty" THEN "fb_empty"
    ELSE IF r.body = "garbage" THEN "fb_parse"
    ELSE "return"

\* The locals of a get_itinerary call that has not run yet, and its record.
NewFetch ==
    [pc |-> "idle",
     attempt |-> 0,          \* direct-tier iterations completed
     fbAttempt |-> 0,        \* fallback iterations completed
     bundle |-> NoBundle,    \* cookies_bundle
     getCalls |-> 0,         \* get_cookies() calls
     refreshCalls |-> 0,     \* refresh_cookies() calls by get_itinerary itself
     fbRefreshCalls |-> 0,   \* refresh_cookies() calls by _perform_playwright_fetch
     fallbackCalls |-> 0,    \* _perform_playwright_fetch() calls
     counterAtStart |-> 0,   \* _request_counter when the call began
     sent |-> <<>>,          \* the bundle each direct request carried
     refreshed |-> <<>>,     \* what each direct-tier refresh_cookies() returned
     dirHistory |-> <<>>,    \* the direct tier's results, in order
     fbHistory |-> <<>>,     \* the fallback tier's results, in order
     fbPages |-> <<>>,       \* the page each fallback attempt opened
     inflight |-> 0,         \* upstream attempts awaiting their answer
     page |-> NoPage,        \* the page of the fallback attempt in progress
     lastException |-> 0,    \* last_exception: the attempt that raised it, 0 for None
     outcome |-> "none",     \* "ok_direct", "ok_fallback" or the error raised
     cause |-> 0]            \* __cause__ of the exhaustion error

FetchInit ==
    /\ fetch = NewFetch
    /\ nfetch = 0

\* What a fetch leaves alone: the cookie manager's other callers, and the browser
\* manager's tasks, locks and success counter.
FetchFrame ==
    UNCHANGED <<refreshing, cookieCallerVars, requestCounter, startupLock, crashes,
                bpc, bop, bstype, btarget, held, bres, bstart, auxVars>>
NoCookieCall == UNCHANGED <<cookies, refreshStarted, refreshFinished, refreshFailed>>
NoBrowserCall == UNCHANGED <<pairs, activePair, closedPages, nextPage>>

\* _refresh_cookies_internal() run by the only task there is: a new bundle is
\* cached, or the call raises and the cache is left as `base`.
UnderlyingRefresh(base, outcome) ==
    /\ refreshStarted' = refreshStarted + 1
    /\ IF outcome = "ok"
         THEN /\ cookies' = refreshStarted + 1
              /\ refreshFinished' = refreshFinished + 1
              /\ UNCHANGED refreshFailed
         ELSE /\ cookies' = base
              /\ refreshFailed' = refreshFailed + 1
              /\ UNCHANGED refreshFinished

\* get_itinerary is called: _build_payload, then on to `await get_cookies()`.
FetchStart ==
    /\ fetch.pc \in {"idle", "done"}
    /\ nfetch < MaxFetches
    /\ nfetch' = nfetch + 1
    /\ fetch' = [NewFetch EXCEPT !.pc = "get_cookies", !.counterAtStart = requestCounter]
    /\ NoCookieCall /\ NoBrowserCall /\ FetchFrame

\* Line 270: cookies_bundle = await get_cookies(), which returns the cached bundle
\* or performs the underlying refresh.
FetchGetCookies(o) ==
    /\ fetch.pc = "get_cookies"
    /\ IF CacheUsable
         THEN /\ fetch' = [fetch EXCEPT !.pc = "direct_send", !.bundle = cookies,
                                        !.getCalls = @ + 1]
              /\ NoCookieCall
         ELSE /\ UnderlyingRefresh(cookies, o)
              /\ fetch' = IF o = "ok"
                    THEN [fetch EXCEPT !.pc = "direct_send", !.bundle = cookies',
                                       !.getCalls = @ + 1]
                    ELSE [fetch EXCEPT !.pc = "done", !.outcome = "raise_cookies",
                                       !.getCalls = @ + 1]
    /\ UNCHANGED nfetch
    /\ NoBrowserCall /\ FetchFrame

\* Line 273: the request goes out with the current cookies_bundle.
FetchSend ==
    /\ fetch.pc = "direct_send"
    /\ fetch' = [fetch EXCEPT !.pc = "direct_wait", !.sent = Append(@, fetch.bundle),
                              !.inflight = @ + 1]
    /\ UNCHANGED nfetch
    /\ NoCookieCall /\ NoBrowserCall /\ FetchFrame

\* Lines 273-307: the request returns (or raises) and the loop body judges it.
FetchResponse(r) ==
    /\ fetch.pc = "direct_wait"
    /\ LET v == DirectVerdict(r)
           f == [fetch EXCEPT !.inflight = @ - 1, !.dirHistory = Append(@, r)] IN
         fetch' = IF v = "refresh" THEN [f EXCEPT !.pc = "direct_refresh"]
                  ELSE IF v = "return" THEN [f EXCEPT !.pc = "done", !.outcome = "ok_direct"]
                  ELSE [f EXCEPT !.pc = "done", !.outcome = v]
    /\ UNCHANGED nfetch
    /\ NoCookieCall /\ NoBrowserCall /\ FetchFrame

\* Lines 276-277: cookies_bundle = await refresh_cookies(); continue. After the
\* last iteration the loop is left for the fallback.
AfterDirectRefreshOneTry(f) == "fb_ensure"
AfterDirectRefreshThreeTries(f) ==
    IF f.attempt + 1 < DirectAttempts + 1 THEN "direct_send" ELSE "fb_ensure"
AfterDirectRefresh(f) ==
    IF f.attempt + 1 < DirectAttempts THEN "direct_send" ELSE "fb_ensure"

FetchDirectRefresh(o) ==
    /\ fetch.pc = "direct_refresh"
    /\ UnderlyingRefresh(NoBundle, o)
    /\ fetch' = IF o = "ok"
          THEN [fetch EXCEPT !.pc = AfterDirectRefresh(fetch), !.bundle = cookies',
                             !.attempt = @ + 1, !.refreshCalls = @ + 1,
                             !.refreshed = Append(@, cookies')]
          ELSE [fetch EXCEPT !.pc = "done", !.outcome = "raise_refresh",
                             !.refreshCalls = @ + 1,
                             !.refreshed = Append(@, Raised)]
    /\ UNCHANGED nfetch
    /\ NoBrowserCall /\ FetchFrame

\* Line 149: await browser_manager.ensure_browser_started(), run with no other
\* task about: the active pair is reinitialized if unhealthy (ok1), then the
\* alternate (ok2), and with neither healthy the call raises.
FetchEnsure(ok1, ok2) ==
    /\ fetch.pc = "fb_ensure"
    /\ startupLock = Free
    /\ LET alt == Alternate(activePair)
           ps1 == PairsAfterInitialize(pairs, activePair, ok1, nextPage)
           np1 == nextPage + UsedByInitialize(pairs, activePair, ok1)
           cl1 == closedPages \cup ClosedByInitialize(pairs, activePair)
           ps2 == PairsAfterInitialize(ps1, alt, ok2, np1)
           np2 == np1 + UsedByInitialize(ps1, alt, ok2)
           cl2 == cl1 \cup ClosedByInitialize(ps1, alt) IN
         IF ps1[activePair].healthy
           THEN /\ pairs' = ps1 /\ nextPage' = np1 /\ closedPages' = cl1
                /\ UNCHANGED activePair
                /\ fetch' = [fetch EXCEPT !.pc = "fb_open", !.fallbackCalls = @ + 1]
           ELSE /\ pairs' = ps2 /\ nextPage' = np2 /\ closedPages' = cl2
                /\ IF ps2[alt].healthy
                     THEN /\ activePair' = alt
                          /\ fetch' = [fetch EXCEPT !.pc = "fb_open",
                                                    !.fallbackCalls = @ + 1]
                     ELSE /\ UNCHANGED activePair
                          /\ fetch' = [fetch EXCEPT !.pc = "done",
                                                    !.fallbackCalls = @ + 1,
                                                    !.outcome = "fb_no_pair"]
    /\ UNCHANGED nfetch
    /\ NoCookieCall /\ FetchFrame

\* Lines 154-164: an iteration opens a page of its own on the browser context and
\* starts the in-page fetch.
FetchOpenPage ==
    /\ fetch.pc = "fb_open"
    /\ fetch' = [fetch EXCEPT !.pc = "fb_wait", !.page = nextPage,
                              !.fbPages = Append(@, nextPage), !.inflight = @ + 1]
    /\ nextPage' = nextPage + 1
    /\ UNCHANGED <<nfetch, pairs, activePair, closedPages>>
    /\ NoCookieCall /\ FetchFrame

\* Lines 165-200: the try block ends and the iteration judges the result. On
\* TargetClosedError the handler goes on to refresh_cookies() with the page still
\* to be closed; otherwise `finally` closes the page now.
FetchFallbackResult(r) ==
    /\ fetch.pc = "fb_wait"
    /\ LET v == FallbackVerdict(r)
           f == [fetch EXCEPT !.inflight = @ - 1, !.fbHistory = Append(@, r)] IN
         IF v = "refresh"
           THEN /\ fetch' = [f EXCEPT !.pc = "fb_refresh",
                                      !.lastException = f.fbAttempt + 1]
                /\ UNCHANGED closedPages
           ELSE /\ closedPages' = closedPages \cup {fetch.page}
                /\ fetch' = IF v = "return"
                      THEN [f EXCEPT !.pc = "final_refresh", !.page = NoPage]
                      ELSE [f EXCEPT !.pc = "done", !.outcome = v, !.page = NoPage]
    /\ UNCHANGED <<nfetch, pairs, activePair, nextPage>>
    /\ NoCookieCall /\ FetchFrame

\* Lines 202-204: `raise RuntimeError(...) from last_exception`.
ExhaustionCauseNone(f) == 0
ExhaustionCause(f) == f.lastException

\* Lines 165-174 and 202-204: await refresh_cookies(); continue, `finally` closing
\* the page on the way out. After the last iteration the exhaustion error is
\* raised from last_exception.
FetchFallbackRefresh(o) ==
    /\ fetch.pc = "fb_refresh"
    /\ UnderlyingRefresh(NoBundle, o)
    /\ closedPages' = closedPages \cup {fetch.page}
    /\ LET f == [fetch EXCEPT !.fbRefreshCalls = @ + 1, !.page = NoPage] IN
         fetch' = IF o # "ok"
                    THEN [f EXCEPT !.pc = "done", !.outcome = "fb_raise_refresh"]
                  ELSE IF f.fbAttempt + 1 < FallbackAttempts
                    THEN [f EXCEPT !.pc = "fb_open", !.fbAttempt = @ + 1]
                  ELSE [f EXCEPT !.pc = "done", !.fbAttempt = @ + 1,
                                 !.outcome = "raise_exhausted",
                                 !.cause = ExhaustionCause(f)]
    /\ UNCHANGED <<nfetch, pairs, activePair, nextPage>>
    /\ FetchFrame

\* Lines 309-314 without line 312.
FetchFinalRefreshOmitted(o) ==
    /\ fetch.pc = "final_refresh"
    /\ fetch' = [fetch EXCEPT !.pc = "done", !.outcome = "ok_fallback"]
    /\ UNCHANGED nfetch
    /\ NoCookieCall /\ NoBrowserCall /\ FetchFrame

\* Lines 309-314: the fallback returned; refresh the stored cookies and return its
\* result. Nothing else is called.
FetchFinalRefresh(o) ==
    /\ fetch.pc = "final_refresh"
    /\ UnderlyingRefresh(NoBundle, o)
    /\ fetch' = IF o = "ok"
          THEN [fetch EXCEPT !.pc = "done", !.outcome = "ok_fallback",
                             !.refreshCalls = @ + 1]
          ELSE [fetch EXCEPT !.pc = "done", !.outcome = "final_raise_refresh",
                             !.refreshCalls = @ + 1]
    /\ UNCHANGED nfetch
    /\ NoBrowserCall /\ FetchFrame

FetchNext ==
    \/ FetchStart
    \/ \E o \in RefreshOutcomes : FetchGetCookies(o)
    \/ FetchSend
    \/ \E r \in DirectResults : FetchResponse(r)
    \/ \E o \in RefreshOutcomes : FetchDirectRefresh(o)
    \/ \E ok1 \in BOOLEAN, ok2 \in BOOLEAN : FetchEnsure(ok1, ok2)
    \/ FetchOpenPage
    \/ \E r \in FallbackResults : FetchFallbackResult(r)
    \/ \E o \in RefreshOutcomes : FetchFallbackRefresh(o)
    \/ \E o \in RefreshOutcomes : FetchFinalRefresh(o)

\* ====================================================================
\* aa_client.py: the shared HTTP client
\* ====================================================================
\* AsyncClient instances constructed in one run.
MaxClients == 2
\* Tasks that use the HTTP client.
NClientTasks == 3

HProcs == 1..NClientTasks
\* `_client = None`.
NoClient == 0

HttpInit ==
    /\ client = NoClient
    /\ clientLock = Free
    /\ aclosed = [c \in 1..MaxClients |-> 0]
    /\ nclients = 0
    /\ hpc = [p \in HProcs |-> "idle"]
    /\ hlast = [p \in HProcs |-> "none"]

HttpFrame ==
    UNCHANGED <<cookieVars, browserVars, fetchVars, payload, life, work, tallyVars>>

\* Lines 43-44, run with _client_lock held: construct the client if there is none.
ConstructIfNone ==
    IF client = NoClient
      THEN /\ client' = nclients + 1
           /\ nclients' = nclients + 1
      ELSE UNCHANGED <<client, nclients>>

\* _get_http_client, lines 41-46: the unlocked check, then the construction under
\* the lock. _client_lock is only ever held across a suspension by
\* shutdown_http_client, and then _client is not None, so the `async with` here
\* never waits.
GetHttpClient(p) ==
    /\ HttpFrame
    /\ hpc[p] = "idle"
    /\ client # NoClient \/ (clientLock = Free /\ nclients < MaxClients)
    /\ ConstructIfNone
    /\ hlast' = [hlast EXCEPT ![p] = "client"]
    /\ UNCHANGED <<clientLock, aclosed, hpc>>

\* Line 55: `_client = None` once aclose() has returned.
ClientAfterCloseKept(c) == c
ClientAfterClose(c) == NoClient

\* shutdown_http_client, lines 52-54: under the lock, `if _client is not None:
\* await _client.aclose()` suspends with the lock held; with no client the call
\* returns at once.
ShutdownHttpClientEnter(p) ==
    /\ HttpFrame
    /\ hpc[p] = "idle"
    /\ clientLock = Free
    /\ IF client # NoClient
         THEN /\ clientLock' = p
              /\ aclosed' = [aclosed EXCEPT ![client] = @ + 1]
              /\ hpc' = [hpc EXCEPT ![p] = "sh_closing"]
              /\ hlast' = [hlast EXCEPT ![p] = "none"]
         ELSE /\ hlast' = [hlast EXCEPT ![p] = "noop"]
              /\ UNCHANGED <<clientLock, aclosed, hpc>>
    /\ UNCHANGED <<client, nclients>>

\* shutdown_http_client, line 55 and the end of the `async with`.
ShutdownHttpClientDone(p) ==
    /\ HttpFrame
    /\ hpc[p] = "sh_closing"
    /\ client' = ClientAfterClose(client)
    /\ clientLock' = Free
    /\ hpc' = [hpc EXCEPT ![p] = "idle"]
    /\ hlast' = [hlast EXCEPT ![p] = "closed"]
    /\ UNCHANGED <<aclosed, nclients>>

HttpNext ==
    \/ \E p \in HProcs : GetHttpClient(p)
    \/ \E p \in HProcs : ShutdownHttpClientEnter(p)
    \/ \E p \in HProcs : ShutdownHttpClientDone(p)

\* ====================================================================
\* aa_client.py: _build_payload
\* ====================================================================
\* Airport codes are strings over a small alphabet, as sequences of characters.
MaxCodeLen == 2
Chars == {"a", "x", "J", "1"}
Codes == UNION {[1..n -> Chars] : n \in 0..MaxCodeLen}
Dates == {"2025-12-15", "tomorrow"}
PassengerCounts == 0..2

\* str.upper() on one character of the alphabet.
UpperCharIdentity(c) == c
UpperChar(c) ==
    CASE c = "a" -> "A"
      [] c = "x" -> "X"
      [] OTHER -> c

\* str.upper().
Upper(str) == [i \in 1..Len(str) |-> UpperChar(str[i])]

\* _build_payload, lines 213-250: the fields that depend on the arguments, and
\* the containers they sit in.
BuildPayload(origin, destination, date, passengers, award_search) ==
    [passengers |-> <<[type |-> "adult", count |-> passengers]>>,
     slices |-> <<[departureDate |-> date,
                   destination |-> Upper(destination),
                   origin |-> Upper(origin)]>>,
     tripOptions |-> [searchType |-> IF award_search THEN "Award" ELSE "Revenue"]]

NoArgs ==
    [origin |-> <<>>, destination |-> <<>>, date |-> "none", passengers |-> 0,
     award_search |-> FALSE]

PayloadInit ==
    payload = [built |-> FALSE, args |-> NoArgs,
               body |-> BuildPayload(<<>>, <<>>, "none", 0, FALSE)]

\* get_itinerary, lines 262-268: the payload for one call's arguments.
GetItineraryPayload(origin, destination, date, passengers, award_search) ==
    /\ UNCHANGED <<cookieVars, browserVars, fetchVars, httpVars, life, work, tallyVars>>
    /\ payload' =
         [built |-> TRUE,
          args |-> [origin |-> origin, destination |-> destination, date |-> date,
                    passengers |-> passengers, award_search |-> award_search],
          body |-> BuildPayload(origin, destination, date, passengers, award_search)]

\* One call is followed per behaviour.
PayloadNext ==
    /\ ~payload.built
    /\ \E origin \in Codes, destination \in Codes, date \in Dates,
          passengers \in PassengerCounts, award_search \in BOOLEAN :
            GetItineraryPayload(origin, destination, date, passengers, award_search)

\* ====================================================================
\* main.py: lifespan
\* ====================================================================
\* The task that runs lifespan: its startup_browser call and, at the end, the
\* shutdown_browser coroutine that asyncio.shield wraps in a task of its own.
\* While that inner task runs, the lifespan coroutine itself only waits for it.
LifespanTask == 1

LifespanInit == life = "init"

LifespanFrame ==
    UNCHANGED <<cookieVars, browserVars, fetchVars, httpVars, payload, work, tallyVars>>

\* Line 17: lifespan is entered and calls startup_browser.
LifespanEnter ==
    /\ LifespanFrame
    /\ life = "init"
    /\ life' = "startup"

LifespanStartupEnter ==
    /\ life = "startup"
    /\ bres[LifespanTask] \notin {"started", "startup_failed"}
    /\ StartupEnter(LifespanTask)

LifespanStartupPair ==
    /\ life = "startup"
    /\ \E ok \in BOOLEAN : StartupWebkit(LifespanTask, ok) \/ StartupFirefox(LifespanTask, ok)

\* Lines 17-20: startup_browser has returned or raised; refresh_browser_session
\* (not part of these sources) returns or raises; an exception of either leaves
\* lifespan before its `try`, otherwise the application is served.
LifespanStarted(refreshed) ==
    /\ LifespanFrame
    /\ life = "startup"
    /\ bpc[LifespanTask] = "idle"
    /\ bres[LifespanTask] \in {"started", "startup_failed"}
    /\ life' = IF bres[LifespanTask] = "started" /\ refreshed THEN "serving" ELSE "failed"

\* Lines 21-22: the application stops, or an exception (a cancellation included)
\* is thrown into lifespan at its `yield`: the `finally` block starts
\* asyncio.shield(shutdown_browser()) and awaits it.
LifespanFinally ==
    /\ LifespanFrame
    /\ life = "serving"
    /\ bpc[LifespanTask] = "idle"
    /\ life' = "teardown"

TeardownRuns == life \in {"teardown", "abandoned"}
TeardownComplete == bpc[LifespanTask] = "idle" /\ bres[LifespanTask] = "shutdown"

\* The inner task's shutdown_browser.
LifespanShutdownEnter ==
    /\ TeardownRuns
    /\ ~TeardownComplete
    /\ ShutdownTakeLock(LifespanTask)

LifespanShutdownPair ==
    /\ TeardownRuns
    /\ ShutdownPair(LifespanTask)

\* Line 22, asyncio.shield: a cancellation of the lifespan task reaches its
\* `await` and ends lifespan with CancelledError, while the inner task is left
\* alone ("abandoned" by its caller, still running). Without the shield the
\* cancellation would be delivered to shutdown_browser itself ("cancelled").
WhenCancelledUnshielded == "cancelled"
WhenCancelled == "abandoned"

\* The lifespan task is cancelled while it waits for the teardown.
LifespanCancel ==
    /\ LifespanFrame
    /\ life = "teardown"
    /\ ~TeardownComplete
    /\ life' = WhenCancelled

\* The teardown has finished and lifespan returns.
LifespanExit ==
    /\ LifespanFrame
    /\ life = "teardown"
    /\ TeardownComplete
    /\ life' = "exited"

\* Requests served by the other tasks, before, during and after the teardown.
RequestTasks == BProcs \ {LifespanTask}

LifespanRequests ==
    \/ \E p \in RequestTasks, st \in SearchTypes : CallPageOp(p, "acquire", st)
    \/ \E p \in RequestTasks, st \in SearchTypes : CallPageOp(p, "bootstrap", st)
    \/ \E p \in RequestTasks : EnsureEnter(p)
    \/ \E p \in RequestTasks, ok \in BOOLEAN : EnsureInitActive(p, ok)
    \/ \E p \in RequestTasks, ok \in BOOLEAN : EnsureInitAlternate(p, ok)
    \/ \E p \in RequestTasks : PageOpLock(p)
    \/ \E p \in RequestTasks, run \in WarmRuns : PageOpCreate(p, run)
    \/ \E p \in RequestTasks : PageOpDone(p)
    \/ \E pg \in 1..(nextPage - 1) : PageCrash(pg)

LifespanNext ==
    \/ LifespanEnter
    \/ LifespanStartupEnter
    \/ LifespanStartupPair
    \/ \E refreshed \in BOOLEAN : LifespanStarted(refreshed)
    \/ LifespanFinally
    \/ LifespanShutdownEnter
    \/ LifespanShutdownPair
    \/ LifespanCancel
    \/ LifespanExit
    \/ LifespanRequests

\* ====================================================================
\* browser_manager.py: _initialize_pair and _teardown_pair, await by await
\* ====================================================================
\* The actions above take _initialize_pair and _teardown_pair as one step each,
\* which is what a task sees that waits for _startup_lock. Both suspend at every
\* launch and every close; the actions below follow them from one suspension to
\* the next, for what a task can see that does not take the lock.
\*
\* `work` describes the one transition in progress (all of them run under the
\* lock): its kind, the pair, the await it is suspended at (an index into
\* TeardownOrder or LaunchOrder), for a teardown who asked for it, and the
\* resources closed so far in it.
NoWork == [kind |-> "none", pair |-> "none", at |-> 0, why |-> "none", log |-> <<>>]

StepsInit == work = NoWork

\* _teardown_pair, lines 68-93: the attributes in the order they are released.
TeardownOrderBrowsersFirst ==
    <<"award_browser", "cash_browser", "award_page", "cash_page",
      "award_context", "cash_context", "manager">>
TeardownOrder ==
    <<"award_page", "cash_page", "award_context", "cash_context",
      "award_browser", "cash_browser", "manager">>

\* _initialize_pair, lines 156-163: the awaits that each set one attribute.
LaunchOrder ==
    <<"playwright", "award_browser", "award_context", "cash_browser", "cash_context">>
\* Lines 165-168: suspended in the gather of the two _ensure_page calls.
AtPages == Len(LaunchOrder) + 1

IsPageAttr(attr) == attr \in {"award_page", "cash_page"}

\* Lines 70, 77, 83, 88: is there something to close behind the attribute?
NeedsClose(state, attr) ==
    IF IsPageAttr(attr) THEN IsOpen(state[attr]) ELSE state[attr]

\* setattr(state, attr, None).
Cleared(state, attr) ==
    [state EXCEPT ![attr] = IF IsPageAttr(attr) THEN NoPage ELSE FALSE]

\* The first attribute from position i on that needs a close, i.e. the next
\* await of _teardown_pair that suspends; past the end when there is none.
RECURSIVE NextClose(_, _)
NextClose(state, i) ==
    IF i > Len(TeardownOrder) THEN i
    ELSE IF NeedsClose(state, TeardownOrder[i]) THEN i
    ELSE NextClose(state, i + 1)

\* The attributes at positions i..j-1 set to None.
ClearedBetween(state, i, j) ==
    [attr \in DOMAIN state |->
        IF \E n \in i..(j - 1) : n <= Len(TeardownOrder) /\ TeardownOrder[n] = attr
          THEN Cleared(state, attr)[attr]
          ELSE state[attr]]

\* Lines 94-95, the end of _teardown_pair.
TornDown(state, i) ==
    [ClearedBetween(state, i, Len(TeardownOrder) + 1)
        EXCEPT !.playwright = FALSE, !.healthy = FALSE]

TeardownSuspends(state, i) == NextClose(state, i) <= Len(TeardownOrder)

\* _teardown_pair runs on from position i of pair k (in state `state`) up to its
\* next close, which it awaits.
TeardownSuspend(k, state, i, why, log) ==
    LET j == NextClose(state, i)
        attr == TeardownOrder[j] IN
    /\ pairs' = [pairs EXCEPT ![k] = ClearedBetween(state, i, j)]
    /\ closedPages' = closedPages \cup (IF IsPageAttr(attr) THEN {state[attr]} ELSE {})
    /\ work' = [kind |-> "teardown", pair |-> k, at |-> j, why |-> why,
                log |-> Append(log, attr)]

\* The pair state when the awaited close has returned and its attribute is set to None.
Resumed == Cleared(pairs[work.pair], TeardownOrder[work.at])

StepsFrame ==
    UNCHANGED <<cookieVars, fetchVars, httpVars, payload, life, tallyVars,
                requestCounter, crashes, held, bstart>>

\* The caller of the transition stays where it is.
CallerStays == UNCHANGED <<activePair, startupLock, bpc, bop, bstype, btarget, bres>>

\* _teardown_pair between two of its closes.
StepTeardownResume(p) ==
    /\ StepsFrame
    /\ work.kind = "teardown" /\ startupLock = p
    /\ TeardownSuspends(Resumed, work.at + 1)
    /\ TeardownSuspend(work.pair, Resumed, work.at + 1, work.why, work.log)
    /\ CallerStays
    /\ UNCHANGED nextPage

\* shutdown_browser after one iteration of its loop (lines 217-221).
ShutdownMoveOn(p) ==
    IF bpc[p] = "sd_webkit"
      THEN /\ bpc' = [bpc EXCEPT ![p] = "sd_firefox"]
           /\ UNCHANGED <<startupLock, bres, bop, bstype, btarget>>
      ELSE /\ bpc' = [bpc EXCEPT ![p] = "idle"]
           /\ startupLock' = Free
           /\ bres' = [bres EXCEPT ![p] = "shutdown"]
           /\ Forget(p)

\* shutdown_browser, lines 217-220: one iteration begins; a pair that needs it is
\* torn down up to the first close.
StepShutdownPair(p) ==
    /\ StepsFrame
    /\ bpc[p] \in {"sd_webkit", "sd_firefox"} /\ startupLock = p
    /\ work.kind = "none"
    /\ LET k == IF bpc[p] = "sd_webkit" THEN "webkit" ELSE "firefox" IN
         IF NeedsTeardown(pairs[k]) /\ TeardownSuspends(pairs[k], 1)
           THEN /\ TeardownSuspend(k, pairs[k], 1, "shutdown", <<>>)
                /\ UNCHANGED <<startupLock, bpc, bop, bstype, btarget, bres>>
           ELSE /\ pairs' = IF NeedsTeardown(pairs[k])
                              THEN [pairs EXCEPT ![k] = TornDown(pairs[k], 1)]
                              ELSE pairs
                /\ ShutdownMoveOn(p)
                /\ UNCHANGED <<closedPages, work>>
    /\ UNCHANGED <<activePair, nextPage>>

\* The last close of shutdown_browser's teardown returns.
StepShutdownTeardownDone(p) ==
    /\ StepsFrame
    /\ work.kind = "teardown" /\ work.why = "shutdown" /\ startupLock = p
    /\ ~TeardownSuspends(Resumed, work.at + 1)
    /\ pairs' = [pairs EXCEPT ![work.pair] = TornDown(Resumed, work.at + 1)]
    /\ work' = NoWork
    /\ ShutdownMoveOn(p)
    /\ UNCHANGED <<activePair, closedPages, nextPage>>

\* The pair ensure_browser_started is initializing: the active one, then the alternate.
InitTarget(p) == IF bpc[p] = "ebs_init_active" THEN activePair ELSE Alternate(activePair)

\* Lines 155-156: the manager is made and its start awaited.
Started(state) == [state EXCEPT !.manager = TRUE]
AwaitStart(k) == [kind |-> "initialize", pair |-> k, at |-> 1, why |-> "none", log |-> <<>>]

\* ensure_browser_started once _initialize_pair has returned with the pair healthy
\* (lines 236-237, 248-251).
InitReturned(p) ==
    /\ bpc' = [bpc EXCEPT ![p] = "op_lock"]
    /\ startupLock' = Free
    /\ activePair' = InitTarget(p)
    /\ UNCHANGED <<bop, bstype, btarget, bres>>

\* ensure_browser_started once _initialize_pair has raised (lines 234-235, 244-249).
InitRaised(p) ==
    IF bpc[p] = "ebs_init_active"
      THEN /\ bpc' = [bpc EXCEPT ![p] = "ebs_init_alt"]
           /\ UNCHANGED <<activePair, startupLock, bop, bstype, btarget, bres>>
      ELSE /\ bpc' = [bpc EXCEPT ![p] = "idle"]
           /\ startupLock' = Free
           /\ bres' = [bres EXCEPT ![p] = "no_pair"]
           /\ Forget(p)
           /\ UNCHANGED activePair

\* _initialize_pair is called (lines 147-156): return on a healthy pair, otherwise
\* tear down what is left of it, then start the manager. Every teardown runs to
\* its end and initialization sets healthy last, so a pair that is not healthy
\* and not in a transition has nothing left to close, and the teardown of line
\* 152 returns without suspending.
StepInitBegin(p) ==
    /\ StepsFrame
    /\ bpc[p] \in {"ebs_init_active", "ebs_init_alt"} /\ startupLock = p
    /\ work.kind = "none"
    /\ nextPage <= MaxPages
    /\ LET k == InitTarget(p) IN
         IF pairs[k].healthy
           THEN /\ InitReturned(p)
                /\ UNCHANGED <<pairs, work>>
           ELSE /\ ~TeardownSuspends(pairs[k], 1)
                /\ pairs' = [pairs EXCEPT ![k] = Started(TornDown(pairs[k], 1))]
                /\ work' = AwaitStart(k)
                /\ CallerStays
    /\ UNCHANGED <<closedPages, nextPage>>

\* Lines 156-163: one of the launches returns and sets its attribute, or raises,
\* and then the `except` block (lines 171-174) starts the second teardown.
StepInitLaunch(p, ok) ==
    /\ StepsFrame
    /\ work.kind = "initialize" /\ work.at <= Len(LaunchOrder) /\ startupLock = p
    /\ IF ok
         THEN /\ pairs' = [pairs EXCEPT ![work.pair][LaunchOrder[work.at]] = TRUE]
              /\ work' = [work EXCEPT !.at = @ + 1]
              /\ UNCHANGED closedPages
         ELSE TeardownSuspend(work.pair, pairs[work.pair], 1, "failed", <<>>)
    /\ CallerStays
    /\ UNCHANGED nextPage

\* Lines 165-169: one of the two _ensure_page calls of the gather finishes its
\* warm-up. A page is stored as soon as it is warm; with both stored the pair is
\* healthy and _initialize_pair returns; a failed warm-up goes to the `except`
\* block. (The other warm-up is then taken as not having stored a page.)
StepInitWarm(p, st, run) ==
    /\ StepsFrame
    /\ work.kind = "initialize" /\ work.at = AtPages /\ startupLock = p
    /\ pairs[work.pair][PageAttr(st)] = NoPage
    /\ LET k == work.pair
           warm == [pairs[k] EXCEPT ![PageAttr(st)] = nextPage] IN
         IF WarmResult(run) = "ok"
           THEN /\ nextPage' = nextPage + 1
                /\ UNCHANGED closedPages
                /\ IF warm.award_page # NoPage /\ warm.cash_page # NoPage
                     THEN /\ pairs' = [pairs EXCEPT ![k] = [warm EXCEPT !.healthy = TRUE]]
                          /\ work' = NoWork
                          /\ InitReturned(p)
                     ELSE /\ pairs' = [pairs EXCEPT ![k] = warm]
                          /\ UNCHANGED work
                          /\ CallerStays
           ELSE /\ TeardownSuspend(k, pairs[k], 1, "failed", <<>>)
                /\ CallerStays
                /\ UNCHANGED nextPage

\* The last close of _initialize_pair's second teardown (line 173) returns and the
\* exception is raised to ensure_browser_started.
StepInitFailedDone(p) ==
    /\ StepsFrame
    /\ work.kind = "teardown" /\ work.why = "failed" /\ startupLock = p
    /\ ~TeardownSuspends(Resumed, work.at + 1)
    /\ pairs' = [pairs EXCEPT ![work.pair] = TornDown(Resumed, work.at + 1)]
    /\ work' = NoWork
    /\ InitRaised(p)
    /\ UNCHANGED <<closedPages, nextPage>>

\* get_browser, lines 313-320: not a coroutine and no lock; it reads the active
\* pair's browser attribute as it is at that moment.
GetBrowser(p, st) ==
    /\ StepsFrame
    /\ bpc[p] = "idle"
    /\ LET browser == IF st = "Award" THEN pairs[activePair].award_browser
                      ELSE pairs[activePair].cash_browser IN
         bres' = [bres EXCEPT ![p] = IF browser THEN "browser" ELSE "no_browser"]
    /\ UNCHANGED <<pairs, activePair, startupLock, closedPages, nextPage, bpc, bop,
                   bstype, btarget, work>>

StepsNext ==
    \/ \E p \in BProcs, st \in SearchTypes : CallPageOp(p, "acquire", st)
    \/ \E p \in BProcs, st \in SearchTypes : CallPageOp(p, "bootstrap", st)
    \/ \E p \in BProcs : EnsureEnter(p)
    \/ \E p \in BProcs : StepInitBegin(p)
    \/ \E p \in BProcs, ok \in BOOLEAN : StepInitLaunch(p, ok)
    \/ \E p \in BProcs, st \in SearchTypes, run \in WarmRuns : StepInitWarm(p, st, run)
    \/ \E p \in BProcs : StepInitFailedDone(p)
    \/ \E p \in BProcs : StepTeardownResume(p)
    \/ \E p \in BProcs : PageOpLock(p)
    \/ \E p \in BProcs, run \in WarmRuns : PageOpCreate(p, run)
    \/ \E p \in BProcs : PageOpDone(p)
    \/ \E p \in BProcs : ShutdownEnter(p)
    \/ \E p \in BProcs : StepShutdownPair(p)
    \/ \E p \in BProcs : StepShutdownTeardownDone(p)
    \/ \E p \in BProcs, st \in SearchTypes : GetBrowser(p, st)

\* ====================================================================
Init == CookieInit /\ BrowserInit /\ FetchInit /\ HttpInit /\ PayloadInit /\ LifespanInit /\ StepsInit

\* Concurrent callers of get_cookies and refresh_cookies.
SpecCookie == Init /\ [][CookieNext]_vars

\* The event loop resumes every task that is ready to run, and every underlying
\* refresh terminates, by returning or by raising.
CookieFairness ==
    \A p \in CProcs :
        /\ WF_vars(GetCookiesWake(p))
        /\ WF_vars(RefreshCookiesWake(p))
        /\ WF_vars(\E o \in RefreshOutcomes : RefreshComplete(p, o))

SpecCookieLive == Init /\ [][CookieNext]_vars /\ CookieFairness

\* Concurrent acquirers of the shared pages, with pages dying under them.
SpecBrowser == Init /\ [][PageNext]_vars

\* Concurrent success notifications and the rotations they trigger.
SpecRotation == Init /\ [][RotationNext]_vars

\* get_itinerary calls, one after another, against every upstream behaviour.
SpecFetch == Init /\ [][FetchNext]_vars

\* Page operations together with startup and shutdown.
SpecLifecycle == Init /\ [][PageNext \/ LifecycleNext]_vars

\* Page operations together with rotation.
SpecPool == Init /\ [][PageNext \/ RotationNext]_vars

\* The application's lifespan with requests in flight.
SpecLifespan == Init /\ [][LifespanNext]_vars

\* The event loop keeps running every task that can run: the inner teardown task
\* takes each of its steps, asyncio.Lock hands the lock to a waiter once it is
\* released, and a task that holds the lock across a launch or a warm-up resumes
\* when the browser answers.
LifespanFairness ==
    /\ SF_vars(LifespanShutdownEnter)
    /\ WF_vars(LifespanShutdownPair)
    /\ \A p \in RequestTasks :
          /\ WF_vars(\E ok \in BOOLEAN : EnsureInitActive(p, ok))
          /\ WF_vars(\E ok \in BOOLEAN : EnsureInitAlternate(p, ok))
          /\ WF_vars(\E run \in WarmRuns : PageOpCreate(p, run))

SpecLifespanLive == Init /\ [][LifespanNext]_vars /\ LifespanFairness

\* Initialization and teardown await by await, with page operations, shutdown and
\* get_browser around them.
SpecSteps == Init /\ [][StepsNext]_vars

\* The shared HTTP client alone.
SpecHttp == Init /\ [][HttpNext]_vars

\* _build_payload over its bounded inputs.
SpecPayload == Init /\ [][PayloadNext]_vars

Next == CookieNext \/ PageNext \/ RotationNext \/ LifecycleNext \/ FetchNext
            \/ HttpNext \/ PayloadNext \/ LifespanNext \/ StepsNext

Spec == Init /\ [][Next]_vars

\* ====================================================================
\* Properties
\* ====================================================================
\* The refresh-triggering statuses as the code lists them, written out so that the
\* properties do not move with the model's definition.
CodeRefreshSet == {401, 403, 419, 429}

IsResponse(r) == r.kind = "response"
Last(seq) == seq[Len(seq)]

\* -------------------------------------------------------------------- C1
\* C1: single-flight refresh. When every caller's call began before the first
\* underlying refresh ended, all calls have returned and no refresh raised, the
\* underlying refresh ran exactly once and all callers got the same bundle.
C1_SingleFlight ==
    ((\A p \in CProcs : cpc[p] = "done" /\ inCycle[p]) /\ refreshFailed = 0)
        => /\ refreshStarted = 1
           /\ \A p, q \in CProcs : cres[p] = cres[q]

\* -------------------------------------------------------------------- C2
\* C2 as stated: exclusive page ownership. No two tasks hold the same page handle
\* at the same time.
C2_ExclusiveOwnership ==
    \A p, q \in BProcs :
        (p # q /\ held[p] # NoPage /\ held[q] # NoPage) => held[p] # held[q]

\* C2, amended: tasks that asked for different search types never hold the same
\* page handle at the same time (tasks of one search type share the pair's page).
C2_DistinctTypesDistinctPages ==
    \A p, q \in BProcs :
        (held[p] # NoPage /\ held[q] # NoPage /\ bstype[p] # bstype[q])
            => held[p] # held[q]

\* Two tasks hold pages at once, one per search type.
C2_Witness ==
    \E p, q \in BProcs :
        /\ bpc[p] = "holding" /\ bpc[q] = "holding"
        /\ held[p] # NoPage /\ held[q] # NoPage
        /\ bstype[p] = "Award" /\ bstype[q] = "Revenue"

\* -------------------------------------------------------------------- C3
\* C3: retry bound. A get_itinerary call issues at most 2 direct requests and at
\* most 3 fallback attempts, and never has two attempts in flight at once.
C3_RetryBound ==
    /\ Len(fetch.sent) <= 2
    /\ Len(fetch.fbPages) <= 3
    /\ fetch.inflight <= 1

\* A call that used both direct requests and all three fallback attempts.
C3_Witness ==
    /\ fetch.pc = "done"
    /\ Len(fetch.sent) = 2
    /\ Len(fetch.fbPages) = 3

C5_OtherErrorStatusTerminal ==
    /\ \A i \in 1..Len(fetch.dirHistory) :
         (/\ IsResponse(fetch.dirHistory[i])
          /\ fetch.dirHistory[i].status >= 400
          /\ fetch.dirHistory[i].status \notin CodeRefreshSet)
            => /\ i = Len(fetch.dirHistory)
               /\ fetch.pc = "done"
               /\ fetch.outcome = "raise_http"
               /\ Len(fetch.sent) = i
               /\ fetch.refreshCalls = i - 1
               /\ fetch.fallbackCalls = 0
               /\ fetch.fbPages = <<>>
    /\ \A i \in 1..Len(fetch.fbHistory) :
         (/\ IsResponse(fetch.fbHistory[i])
          /\ fetch.fbHistory[i].status >= 400
          /\ fetch.fbHistory[i].status \notin CodeRefreshSet)
            => /\ i = Len(fetch.fbHistory)
               /\ fetch.pc = "done"
               /\ fetch.outcome = "fb_http"
               /\ Len(fetch.fbPages) = i
               /\ fetch.fbRefreshCalls = i - 1
               /\ fetch.refreshCalls = Len(fetch.refreshed)
               /\ Len(fetch.sent) = 2

\* The second fallback attempt answered 500 and the call raised it.
C5_Witness ==
    /\ Len(fetch.fbHistory) = 2
    /\ Last(fetch.fbHistory).status = 500
    /\ fetch.outcome = "fb_http"

\* -------------------------------------------------------------------- C6
\* C6: the fallback tier is entered only after two direct requests were both
\* answered with refresh-triggering statuses; and when the first direct response
\* is a parseable success, the call is over after one get_cookies call and one
\* request, with no refresh and no fallback.
C6_FallbackOnlyAfterDirectTier ==
    /\ (fetch.pc = "fb_ensure" \/ fetch.fallbackCalls > 0)
         => /\ Len(fetch.sent) = 2
            /\ Len(fetch.dirHistory) = 2
            /\ \A i \in 1..2 : /\ IsResponse(fetch.dirHistory[i])
                               /\ fetch.dirHistory[i].status \in CodeRefreshSet
    /\ (/\ Len(fetch.dirHistory) >= 1
        /\ IsResponse(fetch.dirHistory[1])
        /\ fetch.dirHistory[1].status < 400
        /\ fetch.dirHistory[1].body = "json")
         => /\ fetch.pc = "done"
            /\ fetch.outcome = "ok_direct"
            /\ fetch.getCalls = 1
            /\ Len(fetch.sent) = 1
            /\ fetch.refreshCalls = 0
            /\ fetch.fallbackCalls = 0
            /\ fetch.fbPages = <<>>

\* The fallback tier is running an in-page fetch.
C6_Witness ==
    /\ fetch.pc = "fb_wait"
    /\ fetch.fallbackCalls = 1

AllTargetClosed(h) == \A i \in 1..Len(h) : h[i].kind = "target_closed"

\* C8 as stated: when all 3 fallback attempts end in page-closed errors the call
\* raises the exhaustion error whose cause is the last page-closed error.
C8_PageClosedExhaustion ==
    (/\ fetch.pc = "done"
     /\ Len(fetch.fbHistory) = 3
     /\ AllTargetClosed(fetch.fbHistory))
        => /\ fetch.outcome = "raise_exhausted"
           /\ fetch.cause = 3

\* C8, amended: a page-closed error on an attempt triggers a refresh_cookies call
\* and, when that refresh returns, a retry on a freshly opened page; when all 3
\* attempts end in page-closed errors and each refresh returned, the call raises
\* the exhaustion error whose cause is the last page-closed error. A refresh that
\* raises ends the call with the refresh's own error.
C8_PageClosedRefreshRetry ==
    /\ \A i \in 1..Len(fetch.fbHistory) :
         fetch.fbHistory[i].kind = "target_closed"
            => /\ \/ fetch.fbRefreshCalls >= i
                  \/ i = Len(fetch.fbHistory) /\ fetch.pc = "fb_refresh"
               /\ (fetch.fbAttempt >= i /\ i < 3)
                     => \/ fetch.pc = "fb_open" /\ Len(fetch.fbPages) = i
                        \/ /\ Len(fetch.fbPages) > i
                           /\ \A j \in 1..i : fetch.fbPages[i + 1] # fetch.fbPages[j]
    /\ (/\ fetch.pc = "done"
        /\ Len(fetch.fbHistory) = 3
        /\ AllTargetClosed(fetch.fbHistory))
         => \/ /\ fetch.fbAttempt = 3
               /\ fetch.outcome = "raise_exhausted"
               /\ fetch.cause = 3
               /\ fetch.fbRefreshCalls = 3
            \/ /\ fetch.fbAttempt = 2
               /\ fetch.outcome = "fb_raise_refresh"
    /\ (fetch.pc = "done" /\ fetch.fbAttempt = 3)
         => /\ fetch.outcome = "raise_exhausted"
            /\ AllTargetClosed(fetch.fbHistory)
            /\ fetch.cause = 3

\* Three page-closed attempts, three refreshes, and the exhaustion error.
C8_Witness ==
    /\ fetch.pc = "done"
    /\ fetch.outcome = "raise_exhausted"
    /\ fetch.cause = 3
    /\ fetch.fbRefreshCalls = 3

\* -------------------------------------------------------------------- C9
RECURSIVE RefreshTriggering(_)
\* How many of the responses carry a refresh-triggering status.
RefreshTriggering(h) ==
    IF h = <<>> THEN 0
    ELSE (IF IsResponse(Head(h)) /\ Head(h).status \in CodeRefreshSet THEN 1 ELSE 0)
         + RefreshTriggering(Tail(h))

\* The fallback fetch returned a result to get_itinerary.
FallbackReturned(f) ==
    /\ Len(f.fbHistory) > 0
    /\ IsResponse(Last(f.fbHistory))
    /\ Last(f.fbHistory).status < 400
    /\ Last(f.fbHistory).body = "json"

\* C9: when a get_itinerary call is over, the refresh_cookies calls it made itself
\* number the refresh-triggering direct responses, plus one exactly when the
\* fallback fetch returned; an error raised by the fallback fetch is the call's
\* error, with no final refresh.
C9_RefreshCount ==
    fetch.pc = "done"
        => /\ fetch.refreshCalls = RefreshTriggering(fetch.dirHistory)
                                   + (IF FallbackReturned(fetch) THEN 1 ELSE 0)
           /\ (fetch.fallbackCalls > 0 /\ ~FallbackReturned(fetch))
                => /\ fetch.outcome \in {"fb_no_pair", "fb_exception", "fb_payload",
                                         "fb_js", "fb_http", "fb_empty", "fb_parse",
                                         "fb_raise_refresh", "raise_exhausted"}
                   /\ fetch.refreshCalls = 2

\* Two 401s, a fallback that returned, and the third refresh.
C9_Witness ==
    /\ fetch.pc = "done"
    /\ fetch.outcome = "ok_fallback"
    /\ fetch.refreshCalls = 3

\* -------------------------------------------------------------------- C10
\* C10: a get_itinerary call that succeeded through the fallback tier has notified
\* the failover controller of one successful request: the success counter moved on
\* by one.
C10_SuccessNotifiedOnce ==
    (fetch.pc = "done" /\ fetch.outcome = "ok_fallback")
        => requestCounter = (fetch.counterAtStart + 1) % RotationThreshold

\* -------------------------------------------------------------------- C11
\* C11: a refresh failure is delivered to every caller that was waiting on it. A
\* call that was blocked on a refresh that raised never performs a refresh of its
\* own, and when it ends it has raised.
C11_FailureDeliveredToWaiters ==
    \A p \in CProcs :
        cfailed[p] => /\ cpc[p] \notin {"g_refresh", "r_refresh"}
                      /\ (cpc[p] = "done" => cres[p] = Raised)

\* -------------------------------------------------------------------- C12
\* C12: when every underlying refresh terminates, every get_cookies/refresh_cookies
\* call ends: a caller still waiting while no refresh is in progress has been
\* notified, and a call that has begun eventually returns or raises.
C12_EveryCallEnds ==
    /\ [](\A q \in CProcs : (Waiting(q) /\ ~refreshing) => cnotified[q])
    /\ \A p \in CProcs : (cpc[p] \notin {"idle", "done"}) ~> (cpc[p] = "done")

\* A call that was waiting on a refresh that raised has ended, and a later call
\* has started a refresh of its own.
C12_Witness ==
    \E p, q \in CProcs :
        /\ cfailed[p] /\ cpc[p] = "done"
        /\ ~cfailed[q] /\ ~inCycle[q] /\ cpc[q] \in {"g_refresh", "r_refresh"}

\* -------------------------------------------------------------------- C20
\* C20: a get_cookies call that finds a cached bundle and no refresh in progress
\* returns that bundle in the same step, starts no underlying refresh, and leaves
\* the cache, the refreshing flag and the refresh counts as they were.
C20_CachedGetIsImmediate ==
    [][\A p \in CProcs :
          (GetCookiesEnter(p) /\ cookies # NoBundle /\ ~refreshing)
              => /\ cpc'[p] = "done"
                 /\ cres'[p] = cookies
                 /\ UNCHANGED cookieStateVars]_vars

\* A get_cookies call that began after the only refresh had ended returned its
\* bundle.
C20_Witness ==
    \E p \in CProcs :
        /\ cpc[p] = "done" /\ cop[p] = "get" /\ ~inCycle[p]
        /\ cres[p] = 1 /\ cookies = 1
        /\ refreshStarted = 1 /\ refreshFailed = 0 /\ ~refreshing

\* -------------------------------------------------------------------- C13
\* C13: no closed handle leaves the pool. Whenever acquire_page or
\* get_bootstrap_page returns a page to a task, that page is open at that moment
\* and is the active pair's stored page for the search type; and when the stored
\* page was missing or closed, the page returned is a fresh handle.
C13_ReturnedPageIsOpen ==
    [][\A p \in BProcs :
          (bpc[p] # "holding" /\ bpc'[p] = "holding")
              => /\ held'[p] # NoPage
                 /\ held'[p] \notin closedPages'
                 /\ held'[p] = (IF bstype[p] = "Award"
                                  THEN pairs'[activePair'].award_page
                                  ELSE pairs'[activePair'].cash_page)
                 /\ LET stored == IF bstype[p] = "Award"
                                     THEN pairs[activePair].award_page
                                     ELSE pairs[activePair].cash_page IN
                      (stored = NoPage \/ stored \in closedPages)
                          => /\ held'[p] = nextPage
                             /\ nextPage' = nextPage + 1]_vars

\* The active pair's award page was closed under the manager and a task holds its
\* replacement, which is open.
C13_Witness ==
    \E p \in BProcs :
        /\ bpc[p] = "holding" /\ bstype[p] = "Award"
        /\ held[p] = pairs[activePair].award_page
        /\ held[p] \notin closedPages
        /\ pairs[activePair].award_page > pairs[activePair].cash_page
        /\ crashes = 1

\* -------------------------------------------------------------------- C14
\* C14: rotation cadence. The counter counts modulo 75; the call that brings it to
\* 75 resets it to 0 and goes on to rotate towards the pair that was the alternate
\* at that moment. The rotation ends either with that pair healthy and active, or,
\* when the pair was not healthy and could not be initialized, with the active
\* pair unchanged; the call never raises.
C14_RotationCadence ==
    [][\A p \in BProcs :
          /\ (requestCounter' # requestCounter)
                => requestCounter' = (requestCounter + 1) % 75
          /\ (bpc[p] = "idle" /\ bpc'[p] = "rot_lock")
                => /\ requestCounter = 74 /\ requestCounter' = 0
                   /\ btarget'[p] = (IF activePair = "webkit" THEN "firefox" ELSE "webkit")
          /\ (requestCounter = 74 /\ requestCounter' = 0)
                => \E q \in BProcs : bpc[q] = "idle" /\ bpc'[q] = "rot_lock"
          /\ (bpc[p] \in {"rot_lock", "rot_init"} /\ bpc'[p] = "idle")
                => \/ /\ bres'[p] = "rotated"
                      /\ activePair' = btarget[p]
                      /\ pairs'[btarget[p]].healthy
                   \/ /\ bres'[p] = "rotation_skipped"
                      /\ activePair' = activePair
                      /\ ~pairs[btarget[p]].healthy
                      /\ ~pairs'[btarget[p]].healthy]_vars

\* One rotation was skipped because the alternate could not be initialized, and
\* another switched the active pair to Firefox.
C14_Witness ==
    \E p, q \in BProcs :
        /\ bres[p] = "rotated" /\ bres[q] = "rotation_skipped"
        /\ activePair = "firefox" /\ pairs["firefox"].healthy

\* -------------------------------------------------------------------- C15
\* C15: startup_browser raises exactly when no pair is healthy at its end. The
\* Firefox pair is attempted whatever the WebKit attempt did, and the call ends
\* only after both pairs were attempted.
C15_StartupRaisesIffNoPair ==
    [][\A p \in BProcs :
          /\ (bpc[p] = "st_webkit" /\ bpc'[p] # "st_webkit")
                => /\ bpc'[p] = "st_firefox"
                   /\ bstart'[p].attempts = <<"webkit">>
          /\ (bpc[p] = "st_firefox" /\ bpc'[p] # "st_firefox")
                => /\ bpc'[p] = "idle"
                   /\ bstart[p].attempts = <<"webkit">>
                   /\ bres'[p] \in {"started", "startup_failed"}
                   /\ (bres'[p] = "startup_failed")
                         <=> (\A k \in Engines : ~pairs'[k].healthy)]_vars

\* startup_browser succeeded although the WebKit pair failed to initialize.
C15_Witness ==
    \E p \in BProcs :
        /\ bres[p] = "started" /\ bpc[p] = "idle"
        /\ ~pairs["webkit"].healthy /\ pairs["firefox"].healthy
        /\ closedPages = {} /\ nextPage = 3

\* -------------------------------------------------------------------- C16
\* C16: when startup_browser ends successfully the active pair is healthy; it is
\* WebKit whenever WebKit is healthy, and Firefox only when WebKit is not.
C16_StartupPrefersWebkit ==
    [][\A p \in BProcs :
          (bpc[p] = "st_firefox" /\ bpc'[p] = "idle" /\ bres'[p] = "started")
              => /\ pairs'[activePair'].healthy
                 /\ pairs'["webkit"].healthy => activePair' = "webkit"
                 /\ activePair' = "firefox" => ~pairs'["webkit"].healthy]_vars

\* A successful startup left Firefox active with the counter at zero.
C16_Witness ==
    \E p \in BProcs :
        /\ bres[p] = "started"
        /\ activePair = "firefox" /\ requestCounter = 0
        /\ pairs["firefox"].healthy /\ ~pairs["webkit"].healthy

\* -------------------------------------------------------------------- C17
\* C17: ensure_browser_started. It returns normally only with the active pair
\* healthy. With the active pair unhealthy it first reinitializes that pair,
\* leaving the alternate alone; it goes on to the alternate only when the active
\* pair is still unhealthy; it switches the selector only to an alternate that
\* became healthy; and it raises only with both pairs unhealthy and the selector
\* unchanged.
C17_EnsureStarted ==
    [][\A p \in BProcs :
          LET alt == IF activePair = "webkit" THEN "firefox" ELSE "webkit" IN
          /\ (bpc[p] \in {"ebs", "ebs_init_active", "ebs_init_alt"} /\ bpc'[p] = "op_lock")
                => pairs'[activePair'].healthy
          /\ (bpc[p] = "ebs" /\ bpc'[p] # "ebs")
                => /\ UNCHANGED <<pairs, activePair>>
                   /\ bpc'[p] = (IF pairs[activePair].healthy
                                   THEN "op_lock" ELSE "ebs_init_active")
          /\ (bpc[p] = "ebs_init_active" /\ bpc'[p] # "ebs_init_active")
                => /\ activePair' = activePair
                   /\ pairs'[alt] = pairs[alt]
                   /\ bpc'[p] = (IF pairs'[activePair].healthy
                                   THEN "op_lock" ELSE "ebs_init_alt")
          /\ (bpc[p] = "ebs_init_alt" /\ bpc'[p] # "ebs_init_alt")
                => /\ ~pairs[activePair].healthy
                   /\ pairs'[activePair] = pairs[activePair]
                   /\ IF pairs'[alt].healthy
                        THEN activePair' = alt /\ bpc'[p] = "op_lock"
                        ELSE /\ activePair' = activePair
                             /\ bpc'[p] = "idle"
                             /\ bres'[p] = "no_pair"]_vars

\* ensure_browser_started switched to Firefox after WebKit failed to come up, and
\* its caller goes on to take a page.
C17_Witness ==
    \E p \in BProcs :
        /\ bpc[p] = "op_lock"
        /\ activePair = "firefox"
        /\ pairs["firefox"].healthy /\ ~pairs["webkit"].healthy

C19_BadBodyTerminal ==
    /\ \A i \in 1..Len(fetch.dirHistory) :
         (/\ IsResponse(fetch.dirHistory[i])
          /\ fetch.dirHistory[i].status < 400
          /\ fetch.dirHistory[i].body \in {"empty", "garbage"})
            => /\ i = Len(fetch.dirHistory)
               /\ fetch.pc = "done"
               /\ fetch.outcome = (IF fetch.dirHistory[i].body = "empty"
                                     THEN "raise_empty" ELSE "raise_parse")
               /\ Len(fetch.sent) = i
               /\ fetch.refreshCalls = i - 1
               /\ fetch.fallbackCalls = 0
               /\ fetch.fbPages = <<>>
    /\ \A i \in 1..Len(fetch.fbHistory) :
         (/\ IsResponse(fetch.fbHistory[i])
          /\ fetch.fbHistory[i].status < 400
          /\ fetch.fbHistory[i].body \in {"empty", "garbage"})
            => /\ i = Len(fetch.fbHistory)
               /\ fetch.pc = "done"
               /\ fetch.outcome = (IF fetch.fbHistory[i].body = "empty"
                                     THEN "fb_empty" ELSE "fb_parse")
               /\ Len(fetch.fbPages) = i
               /\ fetch.fbRefreshCalls = i - 1
               /\ fetch.refreshCalls = Len(fetch.refreshed)
               /\ Len(fetch.sent) = 2

\* The direct tier was used up, and the first fallback attempt got a 200 whose
\* body is not JSON: the call raised the parse error.
C19_Witness ==
    /\ Len(fetch.dirHistory) = 2
    /\ Len(fetch.fbHistory) = 1
    /\ fetch.fbHistory[1].status = 200 /\ fetch.fbHistory[1].body = "garbage"
    /\ fetch.outcome = "fb_parse"

\* -------------------------------------------------------------------- C24
\* C24: at most one underlying refresh is in flight, and the refreshing flag is
\* true exactly while one is.
C24_OneRefreshInFlight ==
    LET inFlight == {p \in CProcs : cpc[p] \in {"g_refresh", "r_refresh"}} IN
    /\ Cardinality(inFlight) <= 1
    /\ refreshing <=> (inFlight # {})
    /\ refreshStarted - (refreshFinished + refreshFailed) = Cardinality(inFlight)

\* One caller's refresh is in flight while the two others wait for it.
C24_Witness ==
    \E p \in CProcs :
        /\ cpc[p] \in {"g_refresh", "r_refresh"}
        /\ \A q \in CProcs \ {p} : cpc[q] \in {"g_wait", "r_wait"}
        /\ refreshing

\* -------------------------------------------------------------------- C30
\* C30: force-refresh freshness. A refresh_cookies call that returned a bundle
\* returned one whose underlying refresh began after the call did; and a
\* get_cookies call never returns a bundle older than the latest one a
\* refresh_cookies call has returned.
C30_ForceRefreshFresh ==
    [][\A p \in CProcs :
          /\ (cpc[p] \in {"r_wait", "r_refresh"} /\ cpc'[p] = "done" /\ cres'[p] # Raised)
                => /\ cres'[p] > cstart[p]
                   /\ cres'[p] = refreshStarted
                   /\ cookies' = cres'[p]
          /\ (/\ \/ GetCookiesEnter(p)
                 \/ GetCookiesWake(p)
                 \/ \E o \in RefreshOutcomes : RefreshComplete(p, o)
              /\ cop'[p] = "get" /\ cpc'[p] = "done" /\ cres'[p] # Raised)
                => (lastForced = NoBundle \/ cres'[p] >= lastForced)]_vars

\* A refresh_cookies call that began while another refresh was in flight waited
\* it out and returned the bundle of a later refresh, and a get_cookies call
\* returned that bundle afterwards.
C30_Witness ==
    \E p, q \in CProcs :
        /\ cpc[p] = "done" /\ cop[p] = "refresh" /\ cstart[p] = 1 /\ cres[p] = 2
        /\ cpc[q] = "done" /\ cop[q] = "get" /\ cstart[q] = 2 /\ cres[q] = 2
        /\ lastForced = 2


\* --------------------------------------------------------------------
\* C22: shutdown_http_client is idempotent. The call that finds a client closes it
\* and leaves _client None; a call that finds no client ends without an error and
\* changes nothing; and aclose() is never called twice on one client instance.
C22_ShutdownIdempotent ==
    /\ [](\A c \in 1..MaxClients : aclosed[c] <= 1)
    /\ [][\A p \in HProcs :
            /\ (ShutdownHttpClientEnter(p) /\ client = NoClient)
                  => /\ hlast'[p] = "noop"
                     /\ UNCHANGED <<client, clientLock, aclosed, nclients, hpc>>
            /\ (ShutdownHttpClientEnter(p) /\ client # NoClient)
                  => aclosed'[client] = 1 /\ clientLock' = p
            /\ ShutdownHttpClientDone(p)
                  => client' = NoClient /\ hlast'[p] = "closed"]_vars

\* One task's call closed client 1, and a later call by the other found nothing
\* to close.
C22_Witness ==
    \E p, q \in HProcs :
        /\ p # q
        /\ hlast[p] = "closed" /\ hlast[q] = "noop"
        /\ client = NoClient /\ aclosed[1] = 1 /\ nclients = 1

\* --------------------------------------------------------------------
\* C23: the payload has exactly one slice, whose origin and destination are the
\* inputs with every lower-case letter replaced by its capital and every other
\* character kept, and whose departureDate is the input date; one passenger entry
\* with the input count; searchType "Award" exactly when award_search is true and
\* "Revenue" otherwise.
CapitalOf == [a |-> "A", x |-> "X"]
IsUpperCased(out, in) ==
    /\ Len(out) = Len(in)
    /\ \A i \in 1..Len(in) :
          IF in[i] \in DOMAIN CapitalOf THEN out[i] = CapitalOf[in[i]] ELSE out[i] = in[i]

C23_PayloadFields ==
    payload.built =>
        LET a == payload.args
            b == payload.body IN
        /\ Len(b.slices) = 1
        /\ IsUpperCased(b.slices[1].origin, a.origin)
        /\ IsUpperCased(b.slices[1].destination, a.destination)
        /\ b.slices[1].departureDate = a.date
        /\ Len(b.passengers) = 1
        /\ b.passengers[1].count = a.passengers
        /\ b.tripOptions.searchType \in {"Award", "Revenue"}
        /\ (b.tripOptions.searchType = "Award") <=> a.award_search

\* A mixed-case origin, a lower-case destination, a revenue search.
C23_Witness ==
    /\ payload.built
    /\ payload.args.origin = <<"a", "J">>
    /\ payload.args.destination = <<"x", "a">>
    /\ ~payload.args.award_search
    /\ payload.body.slices[1].origin = <<"A", "J">>
    /\ payload.body.slices[1].destination = <<"X", "A">>
    /\ payload.body.tripOptions.searchType = "Revenue"

\* --------------------------------------------------------------------
\* C29: _create_warmed_page raises BrowserFingerprintBannedException exactly when
\* the wait for the marker element timed out; when page.goto itself fails, a
\* navigation timeout included, the error raised is not the ban error.
C29_BanIffMarkerTimeout ==
    [][\A p \in BProcs, run \in WarmRuns :
          (PageOpCreate(p, run) /\ ContextOf(pairs[activePair], bstype[p]))
             => /\ (bres'[p] = "ban") <=> (run = "selector_timeout")
                /\ run \in {"goto_timeout", "goto_error"} => bres'[p] = "error"]_vars

\* --------------------------------------------------------------------
\* C27: no task is suspended on a browser launch, a page creation, a navigation or
\* a selector wait while it holds _startup_lock. (The counter lock and the
\* condition's lock are only held inside one step of the model: no await that
\* suspends lies inside their `async with` blocks, apart from Condition.wait,
\* which releases the lock.)
SuspendedOnBrowserIO(p) ==
    bpc[p] \in {"ebs_init_active", "ebs_init_alt", "op_create", "rot_init",
                "st_webkit", "st_firefox"}

C27_NoLockAcrossIO ==
    \A p \in BProcs : SuspendedOnBrowserIO(p) => startupLock # p

\* --------------------------------------------------------------------
\* C21: once lifespan has begun the teardown, shutdown_browser runs to completion,
\* also when the lifespan task is cancelled while the teardown is in progress: the
\* teardown task leaves its loop only by finishing it, with both pairs released,
\* and it does finish.
C21_TeardownCompletes ==
    /\ [][bpc[LifespanTask] \in {"sd_webkit", "sd_firefox"}
            => \/ bpc'[LifespanTask] \in {"sd_webkit", "sd_firefox"}
               \/ /\ TeardownComplete'
                  /\ \A k \in Engines : ~pairs'[k].healthy /\ ~pairs'[k].manager]_vars
    /\ TeardownRuns ~> TeardownComplete

\* The lifespan task was cancelled during the teardown, and the teardown finished.
C21_Witness ==
    /\ life = "abandoned"
    /\ TeardownComplete
    /\ \A k \in Engines : pairs[k] = BlankPair

\* --------------------------------------------------------------------
\* C25: in every reachable state, the states in the middle of _initialize_pair
\* and _teardown_pair included, a healthy pair has its manager and runtime, both
\* browsers, both contexts and both pages, none of them nil and none of them closed.
BeingClosed(k, attr) ==
    work.kind = "teardown" /\ work.pair = k /\ TeardownOrder[work.at] = attr

C25_HealthyHasEverything ==
    \A k \in Engines :
        pairs[k].healthy =>
            /\ pairs[k].manager /\ pairs[k].playwright
            /\ pairs[k].award_browser /\ pairs[k].cash_browser
            /\ pairs[k].award_context /\ pairs[k].cash_context
            /\ IsOpen(pairs[k].award_page) /\ IsOpen(pairs[k].cash_page)
            /\ \A attr \in DOMAIN pairs[k] : ~BeingClosed(k, attr)

\* --------------------------------------------------------------------
\* C26: no caller observes a pair in transition: acquire_page and
\* get_bootstrap_page read the active pair's page, and get_browser its browser,
\* only while no initialization or teardown is in progress, and the active
\* selector is written only by the task that holds _startup_lock, when its own
\* transition has ended.
C26_NoReadDuringTransition ==
    [][\A p \in BProcs :
          /\ PageOpLock(p) => work.kind = "none"
          /\ (\E st \in SearchTypes : GetBrowser(p, st)) => work.kind = "none"
          /\ (bpc'[p] # bpc[p] /\ activePair' # activePair)
                => startupLock = p /\ work'.kind = "none"]_vars

\* --------------------------------------------------------------------
\* C28: within one teardown of a pair the closes come in the order pages,
\* contexts, browsers, engine runtime: when a context is closed no page of the
\* pair is open any more, when a browser is closed no context is left, when the
\* manager is stopped no browser is left; and the pair is not healthy when the
\* teardown ends.
Rank(attr) ==
    CASE attr \in {"award_page", "cash_page"} -> 1
      [] attr \in {"award_context", "cash_context"} -> 2
      [] attr \in {"award_browser", "cash_browser"} -> 3
      [] OTHER -> 4

C31_ShutdownIsFinal ==
    (life \in {"teardown", "abandoned", "exited"} /\ TeardownComplete)
        => \A k \in Engines : pairs[k] = BlankPair

\* --------------------------------------------------------------------
\* C32: whenever _create_warmed_page fails, for whatever reason, the page it
\* opened has been closed when the error propagates, and the page slot of the
\* pair is as it was.
C32_FailedWarmupLeavesNoPage ==
    [][\A p \in BProcs, run \in WarmRuns :
          (/\ PageOpCreate(p, run)
           /\ ContextOf(pairs[activePair], bstype[p])
           /\ WarmResult(run) # "ok")
             => /\ unclosed' = unclosed
                /\ pairs' = pairs]_vars

\* --------------------------------------------------------------------
\* C33: no success is lost, whatever the interleaving: after N
\* register_successful_request calls from counter 0 the counter is N mod
\* threshold, lying in 0..threshold-1, and floor(N / threshold) rotation attempts
\* were made, each of them ended or under way in the task that reached the
\* threshold.
Rotating == {p \in BProcs : bpc[p] \in {"rot_lock", "rot_init"}}

C33_NoSuccessLost ==
    /\ requestCounter \in 0..(RotationThreshold - 1)
    /\ requestCounter = registered % RotationThreshold
    /\ rotations + Cardinality(Rotating) = registered \div RotationThreshold

\* 150 calls: both tasks reached the threshold once, the second while the first
\* was still waiting to rotate; both rotations have ended.
C33_Witness ==
    /\ registered = 2 * RotationThreshold
    /\ requestCounter = 0
    /\ rotations = 2
    /\ \A p \in BProcs : bpc[p] = "idle" /\ bres[p] \in {"rotated", "rotation_skipped"}

====
